---------------------------- MODULE Spec2Model ----------------------------
(***************************************************************************)
(* Model of the frame ticker and the player controller of                  *)
(* src/src/lib/video-player/frame-ticker.ts, of the LRU cache and the      *)
(* frame store of src/unnamed/part_003, and of the editor store of         *)
(* src/src/lib/stores/video-editor-store.ts.                               *)
(*                                                                         *)
(* Numbers.  The code computes with JavaScript doubles.  The model keeps   *)
(* them exact by scaling:                                                  *)
(*   - wall-clock instants and tick.time are counted in clock ticks,       *)
(*     TicksPerSecond ticks to the second;                                 *)
(*   - tick.frame (the unfloored frame position) is counted in sub-frames, *)
(*     TicksPerSecond sub-frames to the frame.                             *)
(* With these units `frame += deltaTime * fps * rate` is                   *)
(* frame' = frame + d * fps * rate for an elapsed time of d ticks, and     *)
(* `time = frame / fps` reads time * fps = frame.                          *)
(* A division by fps = 0 gives the IEEE results NaN and +-Infinity.        *)
(*                                                                         *)
(* Optional values (undefined, null) are sequences of length 0 or 1.       *)
(***************************************************************************)
EXTENDS Integers, Sequences, FiniteSets, TLC

VARIABLES
    now,            \* performance.now(), in ticks
    asset,          \* VideoPlayerController.asset
    ticker,         \* VideoPlayerController.frameTicker (a FrameTicker)
    renderer,       \* VideoPlayerController.renderer is non-null
    rafScheduled,   \* VideoPlayerController.animationFrameId is non-null
    events,         \* the notifications delivered by the last operation
    lastOp,         \* the last operation and its arguments
    before,         \* asset and ticker as they were before the last operation
    advanced,       \* time and frame of the last update() before the boundaries were checked
    timeLog,        \* what the onTimeUpdate listener has seen
    store,          \* a FrameStore: its fields, its loads in flight and its timers
    storeBefore,    \* the FrameStore as it was before the last operation
    returned,       \* what the last FrameStore call resolved to (null: Undefined)
    prevRange,      \* the prioritize call just before the last one, when that is one too
    lifetime,       \* when the ticker was constructed; whether dispose() was called
    editor,         \* the state of the editor store
    timelineBefore  \* the editor store's timeline as it was before the last operation

vars == <<now, asset, ticker, renderer, rafScheduled, events, lastOp, before, advanced,
          timeLog, store, storeBefore, returned, prevRange, lifetime, editor,
          timelineBefore>>

\* the controller and its history; the frame store and its history
controllerVars == <<now, asset, ticker, renderer, rafScheduled, events, before, advanced,
                    timeLog, lifetime>>
storeVars == <<store, storeBefore, returned, prevRange>>
editorVars == <<editor, timelineBefore>>

-----------------------------------------------------------------------------
(* Bounds of the model *)

\* the wall clock stops advancing here (ticks)
MaxNow == 2
\* the largest frame number used as a boundary, a selection edge or a seek target
MaxFrame == 2
\* the longest asset (ticks)
MaxDuration == 4

\* the largest frame number requested from the frame store
MaxStoreFrame == 0
\* loadFrameImmediate calls in flight, thumbnail loads in flight and pending
\* setTimeout callbacks of processQueue, each at most this many at a time
MaxLoads == 1
\* track items that the editor store adds in one behaviour
MaxItems == 2
\* projects that the editor store creates in one behaviour
MaxProjects == 2
\* the latest time that is asked of the editor's timeline (seconds)
MaxEditorTime == 3

\* the frame rates of the assets; 0 is the invalid one
FpsSet == {0, 1, 2}
\* the least common multiple of the positive frame rates: the coarsest tick
\* for which value / fps is a whole number of ticks
TicksPerSecond ==
    CHOOSE n \in 1 .. 12 :
        /\ \A f \in FpsSet \ {0} : n % f = 0
        /\ \A m \in 1 .. (n - 1) : \E f \in FpsSet \ {0} : m % f # 0

\* asset durations in ticks: none, a fractional number of seconds, whole seconds
DurationSet == {0, MaxDuration - 1, MaxDuration}
RateSet == {-1, 0, 1}
SeekFrameSet == {-1, 0, 1, MaxFrame + 1}
SeekTimeSet == {-1, 0, 1, MaxDuration - 1, MaxDuration + 1}

-----------------------------------------------------------------------------
(* Optional values *)

Undefined == <<>>
Some(x) == <<x>>
IsDefined(o) == o # <<>>
Val(o) == o[1]

\* JavaScript's a || b on optional numbers: undefined and 0 are falsy
OrElse(a, b) == IF IsDefined(a) /\ Val(a) # 0 THEN a ELSE b

OptFrameSet == {Undefined} \cup {Some(n) : n \in {0, 1, MaxFrame + 1}}

-----------------------------------------------------------------------------
(* IEEE numbers that may be NaN or infinite: tick.time *)

Fin(v) == [k |-> "fin", v |-> v]
NaN == [k |-> "nan", v |-> 0]
Inf(s) == [k |-> "inf", v |-> s]

\* x + d for a finite d
NumAdd(x, d) == IF x.k = "fin" THEN Fin(x.v + d) ELSE x

\* value / fps in ticks, for a whole number of frames `value`
NumDiv(value, fps) ==
    IF fps # 0 THEN Fin((value * TicksPerSecond) \div fps)
    ELSE IF value = 0 THEN NaN
    ELSE IF value > 0 THEN Inf(1) ELSE Inf(-1)

-----------------------------------------------------------------------------
(* FrameTicker *)

\* new FrameTicker(fps)
NewFrameTicker(fps) ==
    [ fps       |-> fps,
      frame     |-> 0,
      rate      |-> 0,
      time      |-> Fin(0),
      frameTick |-> 0,
      boundary  |-> [start |-> 0, end |-> Undefined],
      selection |-> Undefined ]

\* FrameTicker.stop
Stop(t) == [t EXCEPT !.rate = 0, !.selection = Undefined]

\* FrameTicker.start(from, to)
Start(t, from, to) ==
    LET sel == IF IsDefined(from) \/ IsDefined(to)
               THEN Some([ start |-> Val(OrElse(from, Some(0))),
                           end   |-> Val(OrElse(OrElse(to, t.boundary.end), Some(0))) ])
               ELSE t.selection
    IN  [t EXCEPT !.selection = sel, !.rate = 1]

\* the start edge of checkBoundary
CheckStart(t, b) ==
    IF b.start >= 0 /\ t.frame <= b.start * TicksPerSecond
    THEN LET c == [t EXCEPT !.frame = b.start * TicksPerSecond]
         IN  IF t.rate < 0 THEN Stop(c) ELSE c
    ELSE t

\* checkBoundary's end edge without the stop()
CheckEndNoStop(t, b) ==
    IF IsDefined(b.end) /\ Val(b.end) # 0 /\ Val(b.end) >= 0
       /\ t.frame >= Val(b.end) * TicksPerSecond
    THEN [t EXCEPT !.frame = (Val(b.end) - 1) * TicksPerSecond]
    ELSE t

\* the end edge of checkBoundary
CheckEnd(t, b) ==
    IF IsDefined(b.end) /\ Val(b.end) # 0 /\ Val(b.end) >= 0
       /\ t.frame >= Val(b.end) * TicksPerSecond
    THEN LET c == [t EXCEPT !.frame = (Val(b.end) - 1) * TicksPerSecond]
         IN  IF t.rate > 0 THEN Stop(c) ELSE c
    ELSE t

\* FrameTicker.checkBoundary(boundary), boundary optional
CheckBoundary(t, ob) ==
    IF ~IsDefined(ob) THEN t
    ELSE CheckEnd(CheckStart(t, Val(ob)), Val(ob))

\* this._selection as a FrameBoundary
SelectionBoundary(t) ==
    IF IsDefined(t.selection)
    THEN Some([start |-> Val(t.selection).start, end |-> Some(Val(t.selection).end)])
    ELSE Undefined

\* update() advancing the time without the rate
AdvanceTimeUnscaled(t, d) ==
    [t EXCEPT !.time = NumAdd(t.time, d),
              !.frame = t.frame + d * t.fps * t.rate]

\* update() running the time backward
AdvanceTimeReversed(t, d) ==
    [t EXCEPT !.time = NumAdd(t.time, 0 - d * t.rate),
              !.frame = t.frame + d * t.fps * t.rate]

\* the first two statements of update(): time and frame advance by d ticks
Advance(t, d) ==
    [t EXCEPT !.time = NumAdd(t.time, d * t.rate),
              !.frame = t.frame + d * t.fps * t.rate]

\* update() checking the permanent boundary alone
CheckPermanentOnly(t) == CheckBoundary(t, Some(t.boundary))

\* the permanent boundary, then the selection that is left
CheckBoundaries(t) ==
    LET p == CheckBoundary(t, Some(t.boundary))
    IN  CheckBoundary(p, SelectionBoundary(p))

\* FrameTicker.update() when performance.now() returns n
Update(t, n) ==
    [CheckBoundaries(Advance(t, n - t.frameTick)) EXCEPT !.frameTick = n]

\* get currentFrame
CurrentFrame(t) == t.frame \div TicksPerSecond

\* set currentFrame without clearing the selection
SetFrameKeepingSelection(t, value) ==
    CheckBoundary([t EXCEPT !.time = NumDiv(value, t.fps),
                            !.frame = value * TicksPerSecond],
                  Some(t.boundary))

\* set currentFrame
SetFrame(t, value) ==
    CheckBoundary([t EXCEPT !.time = NumDiv(value, t.fps),
                            !.frame = value * TicksPerSecond,
                            !.selection = Undefined],
                  Some(t.boundary))

\* set currentRate without the stop() on 0
SetRateOnly(t, value) == [t EXCEPT !.rate = value]

\* set currentRate
SetRate(t, value) ==
    LET r == [t EXCEPT !.rate = value]
    IN  IF value = 0 THEN Stop(r) ELSE r

\* get isPlaying
IsPlaying(t) == t.rate # 0

\* FrameTicker.dispose
DisposeTicker(t) == [Stop(t) EXCEPT !.selection = Undefined]

-----------------------------------------------------------------------------
(* VideoPlayerController *)

AssetSet == [fps : FpsSet, duration : DurationSet]

\* getCurrentState(): null without a ticker or an asset
GetCurrentState(t, a) ==
    IF ~IsDefined(t) \/ ~IsDefined(a) THEN Undefined
    ELSE Some([ isPlaying    |-> IsPlaying(Val(t)),
                currentFrame |-> CurrentFrame(Val(t)),
                currentTime  |-> Val(t).time,
                duration     |-> Val(a).duration,
                fps          |-> Val(a).fps ])

\* notifyStateChange(): what onStateChange receives
StateChange(t, a) ==
    IF IsDefined(GetCurrentState(t, a))
    THEN <<[type |-> "state", state |-> Val(GetCurrentState(t, a))]>>
    ELSE <<>>

\* notifyTimeUpdate(): what onTimeUpdate receives
TimeUpdate(t, a) ==
    IF IsDefined(GetCurrentState(t, a))
    THEN <<[type |-> "time", time |-> Val(GetCurrentState(t, a)).currentTime]>>
    ELSE <<>>

\* setAsset's boundary with the end rounded up instead of down
AssetBoundaryCeil(a) ==
    [start |-> 0,
     end |-> Some((a.duration * a.fps + TicksPerSecond - 1) \div TicksPerSecond)]

\* the permanent boundary setAsset gives the new ticker
AssetBoundary(a) ==
    [start |-> 0, end |-> Some((a.duration * a.fps) \div TicksPerSecond)]

\* the ticker setAsset(asset) constructs for a non-null asset
AssetTicker(a) == [NewFrameTicker(a.fps) EXCEPT !.boundary = AssetBoundary(a)]

\* seekToTime's frame with the product rounded up
TimeToFrameCeil(time, fps) == (time * fps + TicksPerSecond - 1) \div TicksPerSecond

\* seekToTime's Math.floor(time * fps), time in ticks
TimeToFrame(time, fps) == (time * fps) \div TicksPerSecond

\* the ticker after the body of render(), which reads the clock as n
RenderTicker(t, n) ==
    IF IsDefined(t) /\ renderer THEN Some(Update(Val(t), n)) ELSE t

\* what render() notifies
RenderEvents(t, a) ==
    IF IsDefined(t) /\ IsPlaying(Val(t)) THEN TimeUpdate(t, a) ELSE <<>>

Snapshot ==
    [asset |-> asset, ticker |-> ticker, renderer |-> renderer,
     rafScheduled |-> rafScheduled]

\* x < y as JavaScript compares numbers: false when either is NaN
NumLess(x, y) ==
    IF x.k = "nan" \/ y.k = "nan" THEN FALSE
    ELSE IF x.k = "inf" THEN x.v < 0 /\ ~(y.k = "inf" /\ y.v < 0)
    ELSE IF y.k = "inf" THEN y.v > 0
    ELSE x.v < y.v

\* no time delivered to onTimeUpdate yet
NoTimeLog ==
    [last |-> Undefined, bySeek |-> FALSE, pending |-> FALSE, order |-> "none",
     finite |-> FALSE, afterSeek |-> FALSE, swapped |-> FALSE]

\* what an onTimeUpdate listener has seen after an operation delivered the
\* notifications evs: the last time it received and whether a seek delivered
\* it; and, for the operation that delivered one, how it compares with the one
\* before, whether both are finite numbers, whether the one before came from a
\* seek and whether it is the first one since setAsset
LogTime(log, evs, seek) ==
    IF \E i \in 1 .. Len(evs) : evs[i].type = "time"
    THEN LET i == CHOOSE j \in 1 .. Len(evs) : evs[j].type = "time"
         IN  [last |-> Some(evs[i].time), bySeek |-> seek, pending |-> FALSE,
              order |-> IF ~IsDefined(log.last) THEN "first"
                        ELSE IF NumLess(evs[i].time, Val(log.last)) THEN "lower"
                        ELSE IF NumLess(Val(log.last), evs[i].time) THEN "higher"
                        ELSE "same",
              finite |-> IsDefined(log.last) /\ Val(log.last).k = "fin"
                         /\ evs[i].time.k = "fin",
              afterSeek |-> log.bySeek,
              swapped |-> log.pending]
    ELSE [log EXCEPT !.order = "none", !.finite = FALSE, !.afterSeek = FALSE,
                     !.swapped = FALSE]

Op(name, a, b) == [op |-> name, a |-> a, b |-> b]

\* a controller without a ticker, on which dispose() was not called
NoLifetime == [created |-> Undefined, disposed |-> FALSE]

\* the clock values a read of performance.now() may return
ClockReads == now .. MaxNow

\* time and frame of update() before the boundaries are checked
Advanced(t, n) ==
    LET a == Advance(t, n - t.frameTick)
    IN  Some([time |-> a.time, frame |-> a.frame, elapsed |-> n - t.frameTick])

-----------------------------------------------------------------------------
(* LRUCache and FrameStore of src/unnamed/part_003                          *)
(*                                                                         *)
(* A cache is the sequence of its keys in the order of the Map: the first  *)
(* key is the least recently used one.  The cached images are not          *)
(* modelled.  Priorities are counted in half points (10 - distance is a    *)
(* multiple of 1/2), thumbnail times in ticks.                             *)

\* the videos: clips are added for the first; the second stays unknown
VideoIds == {"a", "b"}
ClipIds == {"a"}
StoreFrames == 0 .. MaxStoreFrame
\* the frames requested from a store: the frames of the first video
StoreRequests == {<<"a", f>> : f \in StoreFrames}
\* the requests queued: those, and frame 0 of the second video
QueueRequests == StoreRequests \cup {<<"b", 0>>}
\* the frames requested from a cache: one more than its capacity
CacheCapacity == MaxStoreFrame + 2
CacheRequests == {<<"a", f>> : f \in 0 .. CacheCapacity}
\* the times thumbnails are requested for: half a second and one second
ThumbnailTimes == {1, TicksPerSecond}

DefaultMaxFrames == 1000
DefaultMaxThumbnails == 2000
\* the queue is cut to this length
QueueLimit == 1000
\* requests taken from the queue by one pass of processQueue
BatchSize == 5
\* half points to the point of priority
PriorityUnit == 2
\* the priority prioritize gives the midpoint of its range
TopPoints == 10

\* getFrameKey
FrameKey(videoId, frameNumber) == [videoId |-> videoId, frameNumber |-> frameNumber]

\* getThumbnailKey: the time floored to whole seconds
ThumbnailKey(videoId, time) == [videoId |-> videoId, second |-> time \div TicksPerSecond]

\* Map.delete
Without(c, key) == SelectSeq(c, LAMBDA k : k # key)

\* LRUCache.has
CacheHas(c, key) == \E i \in 1 .. Len(c) : c[i] = key

\* LRUCache.get: the cache after the read; a hit moves the key to the end
CacheGet(c, key) == IF CacheHas(c, key) THEN Append(Without(c, key), key) ELSE c

\* LRUCache.set evicting the most recently used key of a full cache
CacheSetEvictingLast(c, key, maxSize) ==
    IF CacheHas(c, key) THEN Append(Without(c, key), key)
    ELSE IF Len(c) >= maxSize /\ Len(c) > 0 THEN Append(SubSeq(c, 1, Len(c) - 1), key)
    ELSE Append(c, key)

\* LRUCache.set never evicting
CacheSetUnbounded(c, key, maxSize) == Append(Without(c, key), key)

\* LRUCache.set
CacheSet(c, key, maxSize) ==
    IF CacheHas(c, key) THEN Append(Without(c, key), key)
    ELSE IF Len(c) >= maxSize /\ Len(c) > 0 THEN Append(Tail(c), key)
    ELSE Append(c, key)

\* new FrameStore(config)
NewFrameStore(configFrames, configThumbnails) ==
    [ frameCache     |-> <<>>,
      thumbnailCache |-> <<>>,
      priorityQueue  |-> <<>>,
      isProcessing   |-> FALSE,
      videoElements  |-> {},
      maxFrames      |-> Val(OrElse(configFrames, Some(DefaultMaxFrames))),
      maxThumbnails  |-> Val(OrElse(configThumbnails, Some(DefaultMaxThumbnails))),
      loads          |-> {},    \* loadFrameImmediate calls waiting for 'seeked'
      thumbnailLoads |-> {},    \* loadThumbnail calls that have not stored yet
      timers         |-> 0 ]    \* pending setTimeout(processQueue) callbacks

\* a FrameRequest; the timestamp is never read
Request(videoId, frameNumber, priority) ==
    [videoId |-> videoId, frameNumber |-> frameNumber, priority |-> priority]

\* the highest priority among the requests of q
TopPriority(q) ==
    LET ps == {q[i].priority : i \in 1 .. Len(q)}
    IN  CHOOSE p \in ps : \A o \in ps : o <= p

\* priorityQueue.sort((a, b) => b.priority - a.priority): Array.prototype.sort
\* is stable, so the requests of one priority keep their order
RECURSIVE SortByPriority(_)
SortByPriority(q) ==
    IF q = <<>> THEN <<>>
    ELSE LET top == TopPriority(q)
         IN  SelectSeq(q, LAMBDA r : r.priority = top)
                \o SortByPriority(SelectSeq(q, LAMBDA r : r.priority # top))

\* the queue test comparing the frame numbers alone
QueuedByFrame(q, videoId, frameNumber) ==
    \E i \in 1 .. Len(q) : q[i].frameNumber = frameNumber

\* the request is already in the queue
Queued(q, videoId, frameNumber) ==
    \E i \in 1 .. Len(q) : q[i].videoId = videoId /\ q[i].frameNumber = frameNumber

\* addToQueue replacing the queued request of the same frame
AddToQueueReplacing(q, request) ==
    LET rest == SelectSeq(q, LAMBDA r : ~(r.videoId = request.videoId
                                          /\ r.frameNumber = request.frameNumber))
        sorted == SortByPriority(Append(rest, request))
    IN  IF Len(sorted) > QueueLimit THEN SubSeq(sorted, 1, QueueLimit) ELSE sorted

\* addToQueue cutting the queue at its front
AddToQueueCuttingFront(q, request) ==
    IF Queued(q, request.videoId, request.frameNumber) THEN q
    ELSE LET sorted == SortByPriority(Append(q, request))
         IN  IF Len(sorted) > QueueLimit THEN SubSeq(sorted, 2, QueueLimit + 1) ELSE sorted

\* addToQueue
AddToQueue(q, request) ==
    IF Queued(q, request.videoId, request.frameNumber) THEN q
    ELSE LET sorted == SortByPriority(Append(q, request))
         IN  IF Len(sorted) > QueueLimit THEN SubSeq(sorted, 1, QueueLimit) ELSE sorted

\* the load of a frame that is waiting for the 'seeked' event of its video
Load(videoId, frameNumber, batch) ==
    [videoId |-> videoId, frameNumber |-> frameNumber, batch |-> batch]

BatchLoads(s) == {l \in s.loads : l.batch}

\* the end of a pass that schedules no further pass
EndPassOnce(s) == [s EXCEPT !.isProcessing = FALSE]

\* the end of a pass of processQueue: another pass is scheduled when requests
\* are left, and the finally block clears isProcessing
EndPass(s) ==
    [s EXCEPT !.timers = IF s.priorityQueue # <<>> THEN s.timers + 1 ELSE s.timers,
              !.isProcessing = FALSE]

\* processQueue without its test of isProcessing
ProcessQueueReentrant(s) ==
    IF s.priorityQueue = <<>> THEN s
    ELSE LET q == s.priorityQueue
             n == IF Len(q) < BatchSize THEN Len(q) ELSE BatchSize
             started == { Load(q[i].videoId, q[i].frameNumber, TRUE) : i \in
                            { j \in 1 .. n :
                                /\ ~CacheHas(s.frameCache,
                                             FrameKey(q[j].videoId, q[j].frameNumber))
                                /\ q[j].videoId \in s.videoElements } }
             t == [s EXCEPT !.isProcessing = TRUE,
                            !.priorityQueue = SubSeq(q, n + 1, Len(q)),
                            !.loads = s.loads \cup started]
         IN  IF BatchLoads(t) = {} THEN EndPass(t) ELSE t

\* processQueue up to the point where it waits for its loads: the requests of
\* the batch that are not cached and whose video is known start a load; with
\* no load to wait for the pass ends at once
ProcessQueue(s) ==
    IF s.isProcessing \/ s.priorityQueue = <<>> THEN s
    ELSE LET q == s.priorityQueue
             n == IF Len(q) < BatchSize THEN Len(q) ELSE BatchSize
             started == { Load(q[i].videoId, q[i].frameNumber, TRUE) : i \in
                            { j \in 1 .. n :
                                /\ ~CacheHas(s.frameCache,
                                             FrameKey(q[j].videoId, q[j].frameNumber))
                                /\ q[j].videoId \in s.videoElements } }
             t == [s EXCEPT !.isProcessing = TRUE,
                            !.priorityQueue = SubSeq(q, n + 1, Len(q)),
                            !.loads = s.loads \cup started]
         IN  IF started = {} THEN EndPass(t) ELSE t

\* the priority of a frame measured from the start of the range
RangePriorityFromStart(frame, startFrame, endFrame) ==
    LET distance == 2 * (frame - startFrame)
        p == TopPoints * PriorityUnit - distance
    IN  IF p > PriorityUnit THEN p ELSE PriorityUnit

\* the priority prioritize gives a frame of the range, in half points
RangePriority(frame, startFrame, endFrame) ==
    LET distance == IF 2 * frame >= startFrame + endFrame
                    THEN 2 * frame - (startFrame + endFrame)
                    ELSE (startFrame + endFrame) - 2 * frame
        p == TopPoints * PriorityUnit - distance
    IN  IF p > PriorityUnit THEN p ELSE PriorityUnit

\* the loop of prioritize over the frames frame .. endFrame
RECURSIVE EnqueueRange(_, _, _, _, _)
EnqueueRange(q, videoId, frame, startFrame, endFrame) ==
    IF frame > endFrame THEN q
    ELSE EnqueueRange(
             AddToQueue(q, Request(videoId, frame, RangePriority(frame, startFrame, endFrame))),
             videoId, frame + 1, startFrame, endFrame)

\* getStats(), without the estimate of the memory in use
GetStats(s) ==
    [ framesCached     |-> Len(s.frameCache),
      thumbnailsCached |-> Len(s.thumbnailCache),
      queueLength      |-> Len(s.priorityQueue) ]

\* the queue prioritize("b", MaxStoreFrame + 1, MaxStoreFrame + n) leaves when a
\* pass of processQueue is in progress and nothing was queued: every frame of
\* the range, pushed and sorted
RangeQueue(n) ==
    SortByPriority([i \in 1 .. n |->
        Request("b", MaxStoreFrame + i,
                RangePriority(MaxStoreFrame + i, MaxStoreFrame + 1, MaxStoreFrame + n))])

\* the queue after getFrame("a", f) missed the n frames behind MaxStoreFrame,
\* one call after the other: each request at priority 1, in the order of the
\* calls
MissQueue(n) == [i \in 1 .. n |-> Request("a", MaxStoreFrame + i, PriorityUnit)]

\* the store after a load, where a failed load of a batch ends the pass
AfterLoadAborting(s, l, stored) ==
    LET t == [s EXCEPT !.loads = s.loads \ {l},
                       !.frameCache =
                           IF stored
                           THEN CacheSet(s.frameCache, FrameKey(l.videoId, l.frameNumber),
                                         s.maxFrames)
                           ELSE s.frameCache]
    IN  IF l.batch /\ (~stored \/ BatchLoads(t) = {}) THEN EndPass(t) ELSE t

\* the store after a load stored its frame, or failed; the last load of a
\* batch ends the pass
AfterLoad(s, l, stored) ==
    LET t == [s EXCEPT !.loads = s.loads \ {l},
                       !.frameCache =
                           IF stored
                           THEN CacheSet(s.frameCache, FrameKey(l.videoId, l.frameNumber),
                                         s.maxFrames)
                           ELSE s.frameCache]
    IN  IF l.batch /\ BatchLoads(t) = {} THEN EndPass(t) ELSE t

-----------------------------------------------------------------------------
(* The editor store of src/src/lib/stores/video-editor-store.ts            *)
(*                                                                         *)
(* Times are whole seconds.  generateId() is taken to return an id that it *)
(* did not return before: projects and items are numbered in the order of  *)
(* their creation.  A project has the twelve tracks of createProject; a    *)
(* track is named by its project and its index, and is the sequence of its *)
(* items.  Zoom, offset and the selected items of the timeline are left    *)
(* out.  Immer copies currentProject when an action changes it, so the     *)
(* entries of `projects` stay as createProject made them.                  *)

\* createProject makes that many video tracks and audio tracks
VideoTracks == 4
AudioTracks == 8
TrackIndexes == 0 .. (VideoTracks + AudioTracks - 1)

initialTimelineState == [currentTime |-> 0, isPlaying |-> FALSE, duration |-> 0]

\* the store as created; generated counts the item ids given out
NewEditorStore ==
    [currentProject |-> Undefined, projects |-> <<>>, timeline |-> initialTimelineState,
     isLoading |-> FALSE, error |-> Undefined, generated |-> 0]

\* the project that createProject builds
NewProject(id) ==
    [id |-> id, duration |-> 0, tracks |-> [i \in TrackIndexes |-> <<>>]]

\* createProject(title)
CreateProject(e) ==
    LET newProject == NewProject(Len(e.projects) + 1)
    IN  [e EXCEPT !.currentProject = Some(newProject),
                  !.projects = Append(@, newProject),
                  !.timeline = initialTimelineState]

\* loadProject(id): the function is async but awaits nothing
LoadProject(e, id) ==
    LET found == {i \in 1 .. Len(e.projects) : e.projects[i].id = id}
    IN  IF found = {}
        THEN [e EXCEPT !.error = Some("Project not found"), !.isLoading = FALSE]
        ELSE LET project == e.projects[CHOOSE i \in found : \A j \in found : i <= j]
             IN  [e EXCEPT !.currentProject = Some(project),
                           !.timeline = [initialTimelineState
                                            EXCEPT !.duration = project.duration],
                           !.isLoading = FALSE,
                           !.error = Undefined]

\* item.startTime + item.duration
ItemEndTime(item) == item.startTime + item.duration

\* the project with its duration, and the store with its timeline's duration,
\* raised to the end of the item when that is later
WithItemEnd(e, project, item) ==
    IF ItemEndTime(item) > project.duration
    THEN [e EXCEPT !.currentProject = Some([project EXCEPT !.duration = ItemEndTime(item)]),
                   !.timeline.duration = ItemEndTime(item)]
    ELSE [e EXCEPT !.currentProject = Some(project)]

\* addTrackItem(trackId, item)
AddTrackItem(e, trackId, item) ==
    IF ~IsDefined(e.currentProject) THEN e
    ELSE LET p == Val(e.currentProject)
         IN  IF trackId.project # p.id \/ trackId.index \notin TrackIndexes THEN e
             ELSE LET newItem == [id |-> e.generated + 1, startTime |-> item.startTime,
                                  duration |-> item.duration]
                      q == [p EXCEPT !.tracks[trackId.index] = Append(@, newItem)]
                  IN  WithItemEnd([e EXCEPT !.generated = @ + 1], q, newItem)

\* the positions of the item in a track
ItemIndexes(track, itemId) == {k \in 1 .. Len(track) : track[k].id = itemId}

\* the first track of the project that holds the item, if any
TrackOfItem(project, itemId) ==
    LET has == {i \in TrackIndexes : ItemIndexes(project.tracks[i], itemId) # {}}
    IN  IF has = {} THEN Undefined ELSE Some(CHOOSE i \in has : \A j \in has : i <= j)

\* Object.assign(item, updates) for updates of startTime and duration
Assign(item, updates) ==
    [item EXCEPT !.startTime = IF IsDefined(updates.startTime)
                               THEN Val(updates.startTime) ELSE @,
                 !.duration = IF IsDefined(updates.duration)
                              THEN Val(updates.duration) ELSE @]

\* updateTrackItem(itemId, updates)
UpdateTrackItem(e, itemId, updates) ==
    IF ~IsDefined(e.currentProject) THEN e
    ELSE LET p == Val(e.currentProject)
             t == TrackOfItem(p, itemId)
         IN  IF ~IsDefined(t) THEN e
             ELSE LET k == CHOOSE k \in ItemIndexes(p.tracks[Val(t)], itemId) :
                               \A j \in ItemIndexes(p.tracks[Val(t)], itemId) : k <= j
                      item == Assign(p.tracks[Val(t)][k], updates)
                      q == [p EXCEPT !.tracks[Val(t)][k] = item]
                  IN  WithItemEnd(e, q, item)

\* the loop of deleteTrackItem: the latest end of an item, 0 without items
LatestItemEnd(project) ==
    LET ends == {0} \cup UNION { {ItemEndTime(project.tracks[i][k]) :
                                     k \in 1 .. Len(project.tracks[i])} :
                                 i \in TrackIndexes }
    IN  CHOOSE m \in ends : \A x \in ends : x <= m

\* deleteTrackItem(itemId)
DeleteTrackItem(e, itemId) ==
    IF ~IsDefined(e.currentProject) THEN e
    ELSE LET p == Val(e.currentProject)
             t == TrackOfItem(p, itemId)
             q == IF ~IsDefined(t) THEN p
                  ELSE LET k == CHOOSE k \in ItemIndexes(p.tracks[Val(t)], itemId) :
                                    \A j \in ItemIndexes(p.tracks[Val(t)], itemId) : k <= j
                       IN  [p EXCEPT !.tracks[Val(t)] =
                                         SubSeq(@, 1, k - 1) \o SubSeq(@, k + 1, Len(@))]
         IN  [e EXCEPT !.currentProject = Some([q EXCEPT !.duration = LatestItemEnd(q)]),
                       !.timeline.duration = LatestItemEnd(q)]

\* Math.max(0, Math.min(time, duration))
ClampTime(time, duration) ==
    LET least == IF time <= duration THEN time ELSE duration
    IN  IF least >= 0 THEN least ELSE 0

\* setCurrentTime(time)
SetCurrentTime(e, time) ==
    [e EXCEPT !.timeline.currentTime = ClampTime(time, e.timeline.duration)]

\* play() and pause() of the timeline
TimelinePlay(e) == [e EXCEPT !.timeline.isPlaying = TRUE]
TimelinePause(e) == [e EXCEPT !.timeline.isPlaying = FALSE]

\* seek(time)
TimelineSeek(e, time) ==
    [e EXCEPT !.timeline.currentTime = ClampTime(time, e.timeline.duration),
              !.timeline.isPlaying = FALSE]

\* setCurrentTimeOnly(time)
SetCurrentTimeOnly(e, time) ==
    [e EXCEPT !.timeline.currentTime = ClampTime(time, e.timeline.duration)]

-----------------------------------------------------------------------------
(* The state after construction of the controller, and the state after     *)
(* construction of a FrameTicker on its own                                *)

Init ==
    /\ now = 0
    /\ asset = Undefined
    /\ ticker = Undefined
    /\ renderer = FALSE
    /\ rafScheduled = FALSE
    /\ events = <<>>
    /\ lastOp = Op("new", Undefined, Undefined)
    /\ before = [asset |-> Undefined, ticker |-> Undefined, renderer |-> FALSE,
                 rafScheduled |-> FALSE]
    /\ advanced = Undefined
    /\ editor = NewEditorStore
    /\ timelineBefore = initialTimelineState
    /\ lifetime = NoLifetime
    /\ timeLog = NoTimeLog
    /\ store = NewFrameStore(Undefined, Undefined)
    /\ storeBefore = store
    /\ returned = Undefined
    /\ prevRange = Undefined

\* the permanent boundaries of a ticker: from frame 0, as setAsset sets them,
\* to an end edge or, as constructed, to none
BoundarySet ==
    { [start |-> 0, end |-> e] : e \in {Undefined} \cup {Some(n) : n \in 1 .. MaxFrame} }

InitTicker ==
    /\ now = 0
    /\ asset = Undefined
    /\ ticker \in {Some([NewFrameTicker(fps) EXCEPT !.boundary = b]) :
                     fps \in FpsSet, b \in BoundarySet}
    /\ renderer = FALSE
    /\ rafScheduled = FALSE
    /\ events = <<>>
    /\ lastOp = Op("new", Undefined, Undefined)
    /\ before = [asset |-> Undefined, ticker |-> Undefined, renderer |-> FALSE,
                 rafScheduled |-> FALSE]
    /\ advanced = Undefined
    /\ editor = NewEditorStore
    /\ timelineBefore = initialTimelineState
    /\ lifetime = [NoLifetime EXCEPT !.created = Some(0)]
    /\ timeLog = NoTimeLog
    /\ store = NewFrameStore(Undefined, Undefined)
    /\ storeBefore = store
    /\ returned = Undefined
    /\ prevRange = Undefined

-----------------------------------------------------------------------------
(* Operations of the FrameTicker, called on the controller's ticker *)

TickerStart(from, to) ==
    /\ IsDefined(ticker)
    /\ ticker' = Some(Start(Val(ticker), from, to))
    /\ lastOp' = Op("start", from, to)
    /\ before' = Snapshot
    /\ lifetime' = lifetime
    /\ events' = <<>>
    /\ advanced' = Undefined
    /\ UNCHANGED <<now, asset, renderer, rafScheduled>>
    /\ timeLog' = timeLog
    /\ UNCHANGED <<storeVars, editorVars>>

TickerStop ==
    /\ IsDefined(ticker)
    /\ ticker' = Some(Stop(Val(ticker)))
    /\ lastOp' = Op("stop", Undefined, Undefined)
    /\ before' = Snapshot
    /\ lifetime' = lifetime
    /\ events' = <<>>
    /\ advanced' = Undefined
    /\ UNCHANGED <<now, asset, renderer, rafScheduled>>
    /\ timeLog' = timeLog
    /\ UNCHANGED <<storeVars, editorVars>>

TickerUpdate(n) ==
    /\ IsDefined(ticker)
    /\ now' = n
    /\ ticker' = Some(Update(Val(ticker), n))
    /\ advanced' = Advanced(Val(ticker), n)
    /\ lastOp' = Op("update", Undefined, Undefined)
    /\ before' = Snapshot
    /\ lifetime' = lifetime
    /\ events' = <<>>
    /\ UNCHANGED <<asset, renderer, rafScheduled>>
    /\ timeLog' = timeLog
    /\ UNCHANGED <<storeVars, editorVars>>

SetCurrentFrame(value) ==
    /\ IsDefined(ticker)
    /\ ticker' = Some(SetFrame(Val(ticker), value))
    /\ lastOp' = Op("currentFrame", Some(value), Undefined)
    /\ before' = Snapshot
    /\ lifetime' = lifetime
    /\ events' = <<>>
    /\ advanced' = Undefined
    /\ UNCHANGED <<now, asset, renderer, rafScheduled>>
    /\ timeLog' = timeLog
    /\ UNCHANGED <<storeVars, editorVars>>

SetCurrentRate(value) ==
    /\ IsDefined(ticker)
    /\ ticker' = Some(SetRate(Val(ticker), value))
    /\ lastOp' = Op("currentRate", Some(value), Undefined)
    /\ before' = Snapshot
    /\ lifetime' = lifetime
    /\ events' = <<>>
    /\ advanced' = Undefined
    /\ UNCHANGED <<now, asset, renderer, rafScheduled>>
    /\ timeLog' = timeLog
    /\ UNCHANGED <<storeVars, editorVars>>

-----------------------------------------------------------------------------
(* Operations of the VideoPlayerController *)

\* initialize(canvas): creates the renderer and runs render() once
Initialize(n) ==
    /\ renderer' = TRUE
    /\ now' = IF IsDefined(ticker) THEN n ELSE now
    /\ ticker' = IF IsDefined(ticker) THEN Some(Update(Val(ticker), n)) ELSE ticker
    /\ advanced' = IF IsDefined(ticker) THEN Advanced(Val(ticker), n) ELSE Undefined
    /\ events' = RenderEvents(ticker', asset)
    /\ rafScheduled' = TRUE
    /\ lastOp' = Op("initialize", Undefined, Undefined)
    /\ before' = Snapshot
    /\ lifetime' = [lifetime EXCEPT !.disposed = FALSE]
    /\ UNCHANGED asset
    /\ timeLog' = LogTime(timeLog, events', FALSE)
    /\ UNCHANGED <<storeVars, editorVars>>

\* setAsset(asset | null)
SetAsset(a) ==
    /\ asset' = a
    /\ ticker' = IF IsDefined(a) THEN Some(AssetTicker(Val(a))) ELSE Undefined
    /\ events' = IF IsDefined(a) THEN StateChange(ticker', asset') ELSE <<>>
    /\ lastOp' = Op("setAsset", Undefined, Undefined)
    /\ before' = Snapshot
    /\ lifetime' = [lifetime EXCEPT !.created = IF IsDefined(a) THEN Some(now) ELSE Undefined]
    /\ advanced' = Undefined
    /\ UNCHANGED <<now, renderer, rafScheduled>>
    /\ timeLog' = [LogTime(timeLog, events', FALSE) EXCEPT !.pending = TRUE]
    /\ UNCHANGED <<storeVars, editorVars>>

\* play() constructing a ticker when there is none
PlayCreatingTicker ==
    /\ ticker' = IF IsDefined(ticker)
                 THEN Some(Start(Val(ticker), Undefined, Undefined))
                 ELSE Some(Start(NewFrameTicker(1), Undefined, Undefined))
    /\ events' = StateChange(ticker', asset)
    /\ lastOp' = Op("play", Undefined, Undefined)
    /\ before' = Snapshot
    /\ lifetime' = lifetime
    /\ advanced' = Undefined
    /\ UNCHANGED <<now, asset, renderer, rafScheduled>>
    /\ timeLog' = LogTime(timeLog, events', FALSE)
    /\ UNCHANGED <<storeVars, editorVars>>

\* play()
Play ==
    /\ ticker' = IF IsDefined(ticker)
                 THEN Some(Start(Val(ticker), Undefined, Undefined)) ELSE ticker
    /\ events' = IF IsDefined(ticker) THEN StateChange(ticker', asset) ELSE <<>>
    /\ lastOp' = Op("play", Undefined, Undefined)
    /\ before' = Snapshot
    /\ lifetime' = lifetime
    /\ advanced' = Undefined
    /\ UNCHANGED <<now, asset, renderer, rafScheduled>>
    /\ timeLog' = LogTime(timeLog, events', FALSE)
    /\ UNCHANGED <<storeVars, editorVars>>

Pause ==
    /\ ticker' = IF IsDefined(ticker) THEN Some(Stop(Val(ticker))) ELSE ticker
    /\ events' = IF IsDefined(ticker) THEN StateChange(ticker', asset) ELSE <<>>
    /\ lastOp' = Op("pause", Undefined, Undefined)
    /\ before' = Snapshot
    /\ lifetime' = lifetime
    /\ advanced' = Undefined
    /\ UNCHANGED <<now, asset, renderer, rafScheduled>>
    /\ timeLog' = LogTime(timeLog, events', FALSE)
    /\ UNCHANGED <<storeVars, editorVars>>

\* the body of seekToFrame(frameNumber)
SeekBody(frameNumber) ==
    /\ ticker' = IF IsDefined(ticker)
                 THEN Some(SetFrame(Val(ticker), frameNumber)) ELSE ticker
    /\ events' = IF IsDefined(ticker)
                 THEN StateChange(ticker', asset) \o TimeUpdate(ticker', asset)
                 ELSE <<>>

SeekToFrame(frameNumber) ==
    /\ SeekBody(frameNumber)
    /\ lastOp' = Op("seekToFrame", Some(frameNumber), Undefined)
    /\ before' = Snapshot
    /\ lifetime' = lifetime
    /\ advanced' = Undefined
    /\ UNCHANGED <<now, asset, renderer, rafScheduled>>
    /\ timeLog' = LogTime(timeLog, events', TRUE)
    /\ UNCHANGED <<storeVars, editorVars>>

\* seekToTime(time), time in ticks
SeekToTime(time) ==
    /\ IF IsDefined(ticker) /\ IsDefined(asset)
       THEN SeekBody(TimeToFrame(time, Val(asset).fps))
       ELSE UNCHANGED <<ticker>> /\ events' = <<>>
    /\ lastOp' = Op("seekToTime", Some(time), Undefined)
    /\ before' = Snapshot
    /\ lifetime' = lifetime
    /\ advanced' = Undefined
    /\ UNCHANGED <<now, asset, renderer, rafScheduled>>
    /\ timeLog' = LogTime(timeLog, events', TRUE)
    /\ UNCHANGED <<storeVars, editorVars>>

\* render(), called by the scheduled animation frame
Render(n) ==
    /\ rafScheduled
    /\ now' = IF IsDefined(ticker) /\ renderer THEN n ELSE now
    /\ ticker' = RenderTicker(ticker, n)
    /\ advanced' = IF IsDefined(ticker) /\ renderer
                   THEN Advanced(Val(ticker), n) ELSE Undefined
    /\ events' = IF renderer THEN RenderEvents(ticker', asset) ELSE <<>>
    /\ rafScheduled' = TRUE
    /\ lastOp' = Op("render", Undefined, Undefined)
    /\ before' = Snapshot
    /\ lifetime' = lifetime
    /\ UNCHANGED <<asset, renderer>>
    /\ timeLog' = LogTime(timeLog, events', FALSE)
    /\ UNCHANGED <<storeVars, editorVars>>

\* render(), called by the scheduled animation frame, when the onTimeUpdate
\* listener calls dispose(): the tick then goes on to requestAnimationFrame
RenderDisposing(n) ==
    /\ rafScheduled
    /\ IsDefined(ticker) /\ renderer
    /\ RenderEvents(RenderTicker(ticker, n), asset) # <<>>
    /\ now' = n
    /\ advanced' = Advanced(Val(ticker), n)
    /\ events' = RenderEvents(RenderTicker(ticker, n), asset)
    /\ ticker' = Undefined
    /\ renderer' = FALSE
    /\ rafScheduled' = TRUE
    /\ lastOp' = Op("renderDisposing", Undefined, Undefined)
    /\ before' = Snapshot
    /\ lifetime' = [created |-> Undefined, disposed |-> TRUE]
    /\ UNCHANGED asset
    /\ timeLog' = LogTime(timeLog, events', FALSE)
    /\ UNCHANGED <<storeVars, editorVars>>

\* dispose()
Dispose ==
    /\ rafScheduled' = FALSE
    /\ ticker' = Undefined
    /\ renderer' = FALSE
    /\ events' = <<>>
    /\ lastOp' = Op("dispose", Undefined, Undefined)
    /\ before' = Snapshot
    /\ lifetime' = [created |-> Undefined, disposed |-> TRUE]
    /\ advanced' = Undefined
    /\ UNCHANGED <<now, asset>>
    /\ timeLog' = LogTime(timeLog, events', FALSE)
    /\ UNCHANGED <<storeVars, editorVars>>

\* the program: the controller is the only user of its ticker
Next ==
    \/ \E n \in ClockReads : Initialize(n)
    \/ \E a \in {Undefined} \cup {Some(x) : x \in AssetSet} : SetAsset(a)
    \/ Play
    \/ Pause
    \/ \E f \in SeekFrameSet : SeekToFrame(f)
    \/ \E s \in SeekTimeSet : SeekToTime(s)
    \/ \E n \in ClockReads : Render(n)
    \/ \E n \in ClockReads : RenderDisposing(n)
    \/ Dispose

Spec == Init /\ [][Next]_vars

\* a FrameTicker on its own, used through its public interface
NextTicker ==
    \/ \E from \in OptFrameSet, to \in OptFrameSet : TickerStart(from, to)
    \/ TickerStop
    \/ \E n \in ClockReads : TickerUpdate(n)
    \/ \E v \in SeekFrameSet : SetCurrentFrame(v)
    \/ \E r \in RateSet : SetCurrentRate(r)

SpecTicker == InitTicker /\ [][NextTicker]_vars

-----------------------------------------------------------------------------
(* Operations of the FrameStore, and the completions of its loads *)

\* the state after construction of a FrameStore with the capacities c
InitStoreWith(c) ==
    /\ now = 0
    /\ asset = Undefined
    /\ ticker = Undefined
    /\ renderer = FALSE
    /\ rafScheduled = FALSE
    /\ events = <<>>
    /\ lastOp = Op("new", Undefined, Undefined)
    /\ before = [asset |-> Undefined, ticker |-> Undefined, renderer |-> FALSE,
                 rafScheduled |-> FALSE]
    /\ advanced = Undefined
    /\ editor = NewEditorStore
    /\ timelineBefore = initialTimelineState
    /\ lifetime = NoLifetime
    /\ timeLog = NoTimeLog
    /\ store = NewFrameStore(c.maxFrames, c.maxThumbnails)
    /\ storeBefore = store
    /\ returned = Undefined
    /\ prevRange = Undefined

\* a store built with the smallest capacities
InitStore == InitStoreWith([maxFrames |-> Some(1), maxThumbnails |-> Some(1)])

\* a store built with capacity 0 and no capacity: the defaults
InitQueue == InitStoreWith([maxFrames |-> Some(0), maxThumbnails |-> Undefined])

\* a store whose frame cache holds CacheCapacity frames
InitCache == InitStoreWith([maxFrames |-> Some(CacheCapacity), maxThumbnails |-> Undefined])

\* what every step of the store records
StoreStep(name, a, b) ==
    /\ store'.timers <= MaxLoads
    /\ lastOp' = Op(name, a, b)
    /\ storeBefore' = store
    /\ prevRange' = IF name = "prioritize" /\ lastOp.op = "prioritize"
                    THEN Some(lastOp) ELSE Undefined
    /\ UNCHANGED <<controllerVars, editorVars>>

\* addClip(videoId, url), when the metadata has loaded
AddClip(videoId) ==
    /\ store' = [store EXCEPT !.videoElements = @ \cup {videoId}]
    /\ returned' = Undefined
    /\ StoreStep("addClip", Some([videoId |-> videoId]), Undefined)

\* getFrame(videoId, frameNumber)
GetFrame(videoId, frameNumber) ==
    LET key == FrameKey(videoId, frameNumber) IN
    /\ IF CacheHas(store.frameCache, key)
       THEN /\ store' = [store EXCEPT !.frameCache = CacheGet(@, key)]
            /\ returned' = Some(key)
       ELSE /\ store' = [store EXCEPT !.priorityQueue =
                            AddToQueue(@, Request(videoId, frameNumber, PriorityUnit))]
            /\ returned' = Undefined
    /\ StoreStep("getFrame", Some(key), Undefined)

\* getThumbnail(videoId, timeInSeconds), time in ticks
GetThumbnail(videoId, time) ==
    LET key == ThumbnailKey(videoId, time) IN
    /\ IF CacheHas(store.thumbnailCache, key)
       THEN /\ store' = [store EXCEPT !.thumbnailCache = CacheGet(@, key)]
            /\ returned' = Some(key)
       ELSE /\ store' = IF videoId \in store.videoElements
                        THEN [store EXCEPT !.thumbnailLoads = @ \cup {key}]
                        ELSE store
            /\ Cardinality(store'.thumbnailLoads) <= MaxLoads
            /\ returned' = Undefined
    /\ StoreStep("getThumbnail", Some(key), Undefined)

\* prioritize(videoId, startFrame, endFrame)
Prioritize(videoId, startFrame, endFrame) ==
    /\ store' = ProcessQueue(
                    [store EXCEPT !.priorityQueue =
                        EnqueueRange(@, videoId, startFrame, startFrame, endFrame)])
    /\ returned' = Undefined
    /\ StoreStep("prioritize", Some([videoId |-> videoId]), Some(<<startFrame, endFrame>>))

\* loadFrameImmediate(videoId, frameNumber) up to its wait for 'seeked'; with
\* no such video it resolves to null
LoadFrameImmediate(videoId, frameNumber) ==
    /\ IF videoId \in store.videoElements
       THEN /\ Load(videoId, frameNumber, FALSE) \notin store.loads
            /\ Cardinality(store.loads \ BatchLoads(store)) < MaxLoads
            /\ store' = [store EXCEPT !.loads = @ \cup {Load(videoId, frameNumber, FALSE)}]
       ELSE store' = store
    /\ returned' = Undefined
    /\ StoreStep("loadFrameImmediate", Some(FrameKey(videoId, frameNumber)), Undefined)

\* the video of a load fires 'seeked' and the frame is captured and stored
FrameLoaded(l) ==
    /\ l \in store.loads
    /\ store' = AfterLoad(store, l, TRUE)
    /\ returned' = IF l.batch THEN Undefined ELSE Some(FrameKey(l.videoId, l.frameNumber))
    /\ StoreStep("frameLoaded", Some(FrameKey(l.videoId, l.frameNumber)), Some(<<l.batch>>))

\* the video of a load fires 'seeked' and the capture throws
FrameLoadFailed(l) ==
    /\ l \in store.loads
    /\ store' = AfterLoad(store, l, FALSE)
    /\ returned' = Undefined
    /\ StoreStep("frameLoadFailed", Some(FrameKey(l.videoId, l.frameNumber)), Some(<<l.batch>>))

\* loadThumbnail stores its image
ThumbnailLoaded(key) ==
    /\ key \in store.thumbnailLoads
    /\ store' = [store EXCEPT !.thumbnailLoads = @ \ {key},
                              !.thumbnailCache = CacheSet(@, key, store.maxThumbnails)]
    /\ returned' = Undefined
    /\ StoreStep("thumbnailLoaded", Some(key), Undefined)

\* loadThumbnail fails in its try block
ThumbnailLoadFailed(key) ==
    /\ key \in store.thumbnailLoads
    /\ store' = [store EXCEPT !.thumbnailLoads = @ \ {key}]
    /\ returned' = Undefined
    /\ StoreStep("thumbnailLoadFailed", Some(key), Undefined)

\* a setTimeout callback runs processQueue
TimerFires ==
    /\ store.timers > 0
    /\ store' = ProcessQueue([store EXCEPT !.timers = @ - 1])
    /\ returned' = Undefined
    /\ StoreStep("processQueue", Undefined, Undefined)

\* reset() leaving the video elements in place
ResetKeepingClips ==
    /\ store' = [store EXCEPT !.frameCache = <<>>, !.thumbnailCache = <<>>,
                              !.priorityQueue = <<>>]
    /\ returned' = Undefined
    /\ StoreStep("reset", Undefined, Undefined)

\* reset()
Reset ==
    /\ store' = [store EXCEPT !.frameCache = <<>>, !.thumbnailCache = <<>>,
                              !.priorityQueue = <<>>, !.videoElements = {}]
    /\ returned' = Undefined
    /\ StoreStep("reset", Undefined, Undefined)

\* a store whose queue is one request short of its limit: after addClip("a")
\* and prioritize("a", 0, 0), whose load has not fired 'seeked', the call
\* prioritize("b", MaxStoreFrame + 1, MaxStoreFrame + QueueLimit - 1) was made
InitLimit ==
    /\ now = 0
    /\ asset = Undefined
    /\ ticker = Undefined
    /\ renderer = FALSE
    /\ rafScheduled = FALSE
    /\ events = <<>>
    /\ before = [asset |-> Undefined, ticker |-> Undefined, renderer |-> FALSE,
                 rafScheduled |-> FALSE]
    /\ advanced = Undefined
    /\ editor = NewEditorStore
    /\ timelineBefore = initialTimelineState
    /\ lifetime = NoLifetime
    /\ timeLog = NoTimeLog
    /\ storeBefore = [NewFrameStore(Undefined, Undefined) EXCEPT
                          !.videoElements = {"a"},
                          !.isProcessing = TRUE,
                          !.loads = {Load("a", 0, TRUE)}]
    /\ store = [storeBefore EXCEPT !.priorityQueue = RangeQueue(QueueLimit - 1)]
    /\ lastOp = Op("prioritize", Some([videoId |-> "b"]),
                   Some(<<MaxStoreFrame + 1, MaxStoreFrame + QueueLimit - 1>>))
    /\ returned = Undefined
    /\ prevRange = Some(Op("prioritize", Some([videoId |-> "a"]), Some(<<0, 0>>)))

\* a store with one more request queued than a pass takes: built with room for
\* one frame, and after getFrame("a", f) missed BatchSize + 1 frames
InitBatch ==
    /\ now = 0
    /\ asset = Undefined
    /\ ticker = Undefined
    /\ renderer = FALSE
    /\ rafScheduled = FALSE
    /\ events = <<>>
    /\ before = [asset |-> Undefined, ticker |-> Undefined, renderer |-> FALSE,
                 rafScheduled |-> FALSE]
    /\ advanced = Undefined
    /\ editor = NewEditorStore
    /\ timelineBefore = initialTimelineState
    /\ lifetime = NoLifetime
    /\ timeLog = NoTimeLog
    /\ storeBefore = [NewFrameStore(Some(1), Undefined) EXCEPT
                          !.priorityQueue = MissQueue(BatchSize)]
    /\ store = [storeBefore EXCEPT !.priorityQueue = MissQueue(BatchSize + 1)]
    /\ lastOp = Op("getFrame", Some(FrameKey("a", MaxStoreFrame + BatchSize + 1)), Undefined)
    /\ returned = Undefined
    /\ prevRange = Undefined

\* a FrameStore on its own, used through its public interface
NextStore ==
    \/ \E v \in ClipIds : AddClip(v)
    \/ \E r \in StoreRequests : GetFrame(r[1], r[2])
    \/ \E v \in ClipIds, t \in ThumbnailTimes : GetThumbnail(v, t)
    \/ \E r \in StoreRequests, g \in StoreFrames : Prioritize(r[1], r[2], g)
    \/ \E r \in StoreRequests : LoadFrameImmediate(r[1], r[2])
    \/ \E l \in store.loads : FrameLoaded(l)
    \/ \E l \in store.loads : FrameLoadFailed(l)
    \/ \E k \in store.thumbnailLoads : ThumbnailLoaded(k)
    \/ \E k \in store.thumbnailLoads : ThumbnailLoadFailed(k)
    \/ TimerFires
    \/ Reset

SpecStore == InitStore /\ [][NextStore]_vars

\* the frame requests of a FrameStore: its queue and the passes of processQueue
NextQueue ==
    \/ \E v \in ClipIds : AddClip(v)
    \/ \E r \in QueueRequests : GetFrame(r[1], r[2])
    \/ \E r \in QueueRequests, g \in StoreFrames :
          <<r[1], g>> \in QueueRequests /\ Prioritize(r[1], r[2], g)
    \/ \E r \in QueueRequests : LoadFrameImmediate(r[1], r[2])
    \/ \E l \in store.loads : FrameLoaded(l)
    \/ \E l \in store.loads : FrameLoadFailed(l)
    \/ TimerFires
    \/ Reset

SpecQueue == InitQueue /\ [][NextQueue]_vars

\* the same, with the scheduling the event loop provides: a callback handed
\* to setTimeout is run.  Whether and when a video fires 'seeked' is left to
\* the browser.
SpecQueueTimers == SpecQueue /\ WF_store(TimerFires)

\* the loadFrameImmediate calls of the model
LoadSet == {Load(r[1], r[2], b) : r \in QueueRequests, b \in BOOLEAN}

\* the same, with videos that fire 'seeked' for every seek and frames that
\* can be captured
SpecQueueDecoding == SpecQueueTimers /\ \A l \in LoadSet : WF_store(FrameLoaded(l))

\* the frame cache of a FrameStore, read by getFrame and filled by
\* loadFrameImmediate
NextCache ==
    \/ \E v \in ClipIds : AddClip(v)
    \/ \E r \in CacheRequests : GetFrame(r[1], r[2])
    \/ \E r \in CacheRequests : LoadFrameImmediate(r[1], r[2])
    \/ \E l \in store.loads : FrameLoaded(l)
    \/ \E l \in store.loads : FrameLoadFailed(l)
    \/ Reset

SpecCache == InitCache /\ [][NextCache]_vars

\* the queue of a FrameStore at its limit, while the pass in progress waits
\* for its load
NextLimit ==
    \/ \E r \in QueueRequests : GetFrame(r[1], r[2])
    \/ \E r \in QueueRequests, g \in StoreFrames :
          <<r[1], g>> \in QueueRequests /\ Prioritize(r[1], r[2], g)
    \/ Reset

SpecLimit == InitLimit /\ [][NextLimit]_vars

\* the passes of processQueue over a queue longer than a batch
NextBatch ==
    \/ \E v \in ClipIds : AddClip(v)
    \/ \E r \in StoreRequests, g \in StoreFrames : Prioritize(r[1], r[2], g)
    \/ \E l \in store.loads : FrameLoaded(l)
    \/ \E l \in store.loads : FrameLoadFailed(l)
    \/ TimerFires

SpecBatch == InitBatch /\ [][NextBatch]_vars

\* the passes of processQueue while prioritize is called for the same five
\* frames again and again
NextDrain ==
    \/ \E v \in ClipIds : AddClip(v)
    \/ Prioritize("a", 0, BatchSize - 1)
    \/ \E l \in store.loads : FrameLoaded(l)
    \/ \E l \in store.loads : FrameLoadFailed(l)
    \/ TimerFires

\* the loads a pass can start
BatchLoadSet == {Load("a", f, TRUE) : f \in 0 .. MaxStoreFrame + BatchSize + 1}

\* setTimeout callbacks are run, and every load comes to an end: its video
\* fires 'seeked', and the capture gives a frame or throws
SpecDrain ==
    /\ InitBatch /\ [][NextDrain]_vars
    /\ WF_store(TimerFires)
    /\ \A l \in BatchLoadSet : WF_store(FrameLoaded(l) \/ FrameLoadFailed(l))

\* the last frame of a range wide enough for its outer frames to be further
\* than TopPoints from its midpoint
RangeEnd == MaxStoreFrame + 2 * TopPoints
\* the wide ranges: frames of the second video, for which no clip is added
WideRanges == {<<"b", s, e>> : s \in {0, 1}, e \in {RangeEnd - 1, RangeEnd}}

\* a store after addClip("a") and prioritize("a", 0, 0): the pass waits for
\* the load of the frame
InitRange ==
    /\ now = 0
    /\ asset = Undefined
    /\ ticker = Undefined
    /\ renderer = FALSE
    /\ rafScheduled = FALSE
    /\ events = <<>>
    /\ before = [asset |-> Undefined, ticker |-> Undefined, renderer |-> FALSE,
                 rafScheduled |-> FALSE]
    /\ advanced = Undefined
    /\ editor = NewEditorStore
    /\ timelineBefore = initialTimelineState
    /\ lifetime = NoLifetime
    /\ timeLog = NoTimeLog
    /\ storeBefore = [NewFrameStore(Undefined, Undefined) EXCEPT !.videoElements = {"a"}]
    /\ store = [storeBefore EXCEPT !.isProcessing = TRUE, !.loads = {Load("a", 0, TRUE)}]
    /\ lastOp = Op("prioritize", Some([videoId |-> "a"]), Some(<<0, 0>>))
    /\ returned = Undefined
    /\ prevRange = Undefined

\* prioritize called for wide ranges, during a pass and between passes
NextRange ==
    \/ \E r \in {<<"b", 0>>, <<"b", RangeEnd>>} : GetFrame(r[1], r[2])
    \/ \E w \in WideRanges : Prioritize(w[1], w[2], w[3])
    \/ \E l \in store.loads : FrameLoaded(l)
    \/ \E l \in store.loads : FrameLoadFailed(l)
    \/ TimerFires

SpecRange == InitRange /\ [][NextRange]_vars

-----------------------------------------------------------------------------
(* The video elements and the canvas pool of a FrameStore                   *)
(*                                                                         *)
(* The operations above end a load in one step.  Here a load goes through  *)
(* the steps of the code: it assigns video.currentTime and registers a     *)
(* once-listener for 'seeked'; the event runs the listeners of the element *)
(* in the order of their registration; and a capture that draws on a       *)
(* canvas holds it until createImageBitmap or convertToBlob settles.       *)
(* Times of a video element are counted in seek ticks.                     *)

\* the frame rate loadFrameImmediate assumes when it is given none
DefaultFps == 30
\* the size of the canvas pool when the configuration gives none
DefaultMaxCanvasPool == 10

\* the frame rates of the sources
FrameRates == {24, DefaultFps}
\* the coarsest tick for which frame / fps is a whole number of ticks
SeekTicks ==
    CHOOSE n \in 1 .. 1000 :
        /\ \A f \in FrameRates : n % f = 0
        /\ \A m \in 1 .. (n - 1) : \E f \in FrameRates : m % f # 0

\* frameNumber / fps, in seek ticks
SeekTime(frameNumber, fps) == (frameNumber * SeekTicks) \div fps
\* a thumbnail time, given in clock ticks, in seek ticks
ThumbnailSeekTime(time) == (time * SeekTicks) \div TicksPerSecond

\* the time thumbnails are requested for from a store whose captures are
\* followed: one second
CaptureThumbnailTimes == {TicksPerSecond}

\* a load of loadFrameImmediate(videoId, frameNumber, fps)
LoadAt(videoId, frameNumber, fps) ==
    [videoId |-> videoId, frameNumber |-> frameNumber, batch |-> FALSE, fps |-> fps]

\* the frame rate a load was given: processQueue gives none
LoadFps(l) == IF "fps" \in DOMAIN l THEN l.fps ELSE DefaultFps

\* the time a load assigned to video.currentTime
LoadTime(l) == SeekTime(l.frameNumber, LoadFps(l))

\* the fields of a FrameStore that its captures use, the video elements of
\* its clips and the environment: maxCanvasPool and the filled canvasPool,
\* typeof VideoFrame !== 'undefined', currentTime and the 'seeked' listeners
\* of each video element, the captures that hold a canvas, and the image
\* cached under each key of the frame cache
CaptureFields(configCanvasPool, videoFrame) ==
    [ maxCanvasPool |-> Val(OrElse(configCanvasPool, Some(DefaultMaxCanvasPool))),
      canvasPool    |-> Val(OrElse(configCanvasPool, Some(DefaultMaxCanvasPool))),
      videoFrame    |-> videoFrame,
      currentTime   |-> [v \in VideoIds |-> 0],
      listeners     |-> [v \in VideoIds |-> <<>>],
      capturing     |-> {},     \* frame loads awaiting createImageBitmap
      drawing       |-> {},     \* thumbnail loads awaiting convertToBlob
      images        |-> {} ]

\* what a video element shows: its video at a time
Image(videoId, time) == [videoId |-> videoId, time |-> time]

\* waiting for 'seeked': a frame load or a thumbnail load
FrameListener(l) == [kind |-> "frame", load |-> l]
ThumbnailListener(key) == [kind |-> "thumbnail", key |-> key]

\* video.currentTime = time; addEventListener('seeked', ..., { once: true })
Seek(s, videoId, time, listener) ==
    [s EXCEPT !.currentTime[videoId] = time,
              !.listeners[videoId] = Append(@, listener)]

\* getCanvasFromPool: pop, or a new canvas when the pool is empty
GetCanvasFromPool(s) ==
    [s EXCEPT !.canvasPool = IF @ > 0 THEN @ - 1 ELSE 0]

\* returnCanvasToPool without its test of the pool's length
ReturnCanvasAlways(s) == [s EXCEPT !.canvasPool = @ + 1]

\* returnCanvasToPool: a canvas is pushed only while the pool is not full
ReturnCanvasToPool(s) ==
    [s EXCEPT !.canvasPool = IF @ < s.maxCanvasPool THEN @ + 1 ELSE @]

\* frameCache.set(key, frame) at the end of a load, with the image kept
\* under the key; the images of evicted keys go with them
StoreFrame(s, l, image) ==
    LET t == AfterLoad(s, l, TRUE)
        key == FrameKey(l.videoId, l.frameNumber)
    IN  [t EXCEPT !.images = {i \in @ : i.key # key /\ CacheHas(t.frameCache, i.key)}
                                 \cup {[key |-> key, image |-> image]}]

\* the seeks of the loads that a pass of processQueue started: s is the store
\* before the pass and t the store after it; the loads assign currentTime and
\* register their listeners in the order of the batch
RECURSIVE SeekBatch(_, _, _)
SeekBatch(s, t, i) ==
    IF i > Len(s.priorityQueue) - Len(t.priorityQueue) THEN t
    ELSE LET r == s.priorityQueue[i]
             l == Load(r.videoId, r.frameNumber, TRUE)
         IN  SeekBatch(s,
                       IF l \in t.loads \ s.loads
                       THEN Seek(t, l.videoId, LoadTime(l), FrameListener(l))
                       ELSE t,
                       i + 1)

\* processQueue with the seeks of the loads it starts
ProcessQueueSeeking(s) == SeekBatch(s, ProcessQueue(s), 1)

\* the continuation of one listener after 'seeked': a frame load captures the
\* image, with new VideoFrame(video) at once, else on a canvas of the pool;
\* a thumbnail load draws on a canvas of the pool.  A capture that throws
\* ends its load, and a canvas it took is not returned.
ResumeOne(s, w, image, failed) ==
    IF w.kind = "frame"
    THEN IF s.videoFrame
         THEN IF w \in failed THEN AfterLoad(s, w.load, FALSE)
              ELSE StoreFrame(s, w.load, image)
         ELSE IF w \in failed THEN AfterLoad(GetCanvasFromPool(s), w.load, FALSE)
              ELSE [GetCanvasFromPool(s) EXCEPT
                        !.capturing = @ \cup {[load |-> w.load, image |-> image]}]
    ELSE IF w \in failed
         THEN [GetCanvasFromPool(s) EXCEPT !.thumbnailLoads = @ \ {w.key}]
         ELSE [GetCanvasFromPool(s) EXCEPT !.drawing = @ \cup {w.key}]

\* the listeners ls run one after the other
RECURSIVE Resume(_, _, _, _)
Resume(s, ls, image, failed) ==
    IF ls = <<>> THEN s
    ELSE Resume(ResumeOne(s, Head(ls), image, failed), Tail(ls), image, failed)

\* a store built with a canvas pool of one canvas, after addClip("a")
InitCapture ==
    /\ now = 0
    /\ asset = Undefined
    /\ ticker = Undefined
    /\ renderer = FALSE
    /\ rafScheduled = FALSE
    /\ events = <<>>
    /\ before = [asset |-> Undefined, ticker |-> Undefined, renderer |-> FALSE,
                 rafScheduled |-> FALSE]
    /\ advanced = Undefined
    /\ editor = NewEditorStore
    /\ timelineBefore = initialTimelineState
    /\ lifetime = NoLifetime
    /\ timeLog = NoTimeLog
    /\ \E videoFrame \in BOOLEAN :
          storeBefore = NewFrameStore(Undefined, Undefined)
                            @@ CaptureFields(Some(1), videoFrame)
    /\ store = [storeBefore EXCEPT !.videoElements = {"a"}]
    /\ lastOp = Op("addClip", Some([videoId |-> "a"]), Undefined)
    /\ returned = Undefined
    /\ prevRange = Undefined

\* prioritize(videoId, startFrame, endFrame, fps)
PrioritizeAt(videoId, startFrame, endFrame, fps) ==
    /\ store' = ProcessQueueSeeking(
                    [store EXCEPT !.priorityQueue =
                        EnqueueRange(@, videoId, startFrame, startFrame, endFrame)])
    /\ returned' = Undefined
    /\ StoreStep("prioritize", Some([videoId |-> videoId, fps |-> fps]),
                 Some(<<startFrame, endFrame>>))

\* loadFrameImmediate(videoId, frameNumber, fps) up to its wait for 'seeked'
LoadFrameAt(videoId, frameNumber, fps) ==
    LET l == LoadAt(videoId, frameNumber, fps) IN
    /\ IF videoId \in store.videoElements
       THEN /\ \A o \in store.loads \ BatchLoads(store) :
                  ~(o.videoId = videoId /\ o.frameNumber = frameNumber)
            /\ store' = Seek([store EXCEPT !.loads = @ \cup {l}],
                             videoId, LoadTime(l), FrameListener(l))
       ELSE store' = store
    /\ returned' = Undefined
    /\ StoreStep("loadFrameImmediate", Some(FrameKey(videoId, frameNumber)), Some(<<fps>>))

\* getThumbnail(videoId, timeInSeconds) with the seek of loadThumbnail
GetThumbnailSeeking(videoId, time) ==
    LET key == ThumbnailKey(videoId, time) IN
    /\ IF CacheHas(store.thumbnailCache, key)
       THEN /\ store' = [store EXCEPT !.thumbnailCache = CacheGet(@, key)]
            /\ returned' = Some(key)
       ELSE /\ store' = IF videoId \in store.videoElements
                        THEN Seek([store EXCEPT !.thumbnailLoads = @ \cup {key}],
                                  videoId, ThumbnailSeekTime(time), ThumbnailListener(key))
                        ELSE store
            /\ key \notin store.thumbnailLoads
            /\ returned' = Undefined
    /\ StoreStep("getThumbnail", Some(key), Undefined)

\* a video element fires 'seeked': its listeners run and are removed; the
\* captures of the listeners in failed throw
Seeked(videoId, failed) ==
    LET ls == store.listeners[videoId] IN
    /\ ls # <<>>
    /\ failed \subseteq {ls[i] : i \in 1 .. Len(ls)}
    /\ store' = Resume([store EXCEPT !.listeners[videoId] = <<>>], ls,
                       Image(videoId, store.currentTime[videoId]), failed)
    /\ returned' = Undefined
    /\ StoreStep("seeked", Some([videoId |-> videoId]), Undefined)

\* createImageBitmap resolves: the canvas goes back and the frame is cached
BitmapCreated(c) ==
    /\ c \in store.capturing
    /\ store' = StoreFrame(ReturnCanvasToPool([store EXCEPT !.capturing = @ \ {c}]),
                           c.load, c.image)
    /\ returned' = IF c.load.batch THEN Undefined
                   ELSE Some(FrameKey(c.load.videoId, c.load.frameNumber))
    /\ StoreStep("bitmapCreated", Some(FrameKey(c.load.videoId, c.load.frameNumber)),
                 Some(<<c.load.batch>>))

\* createImageBitmap rejects: the load ends without the canvas going back
BitmapFailed(c) ==
    /\ c \in store.capturing
    /\ store' = AfterLoad([store EXCEPT !.capturing = @ \ {c}], c.load, FALSE)
    /\ returned' = Undefined
    /\ StoreStep("bitmapFailed", Some(FrameKey(c.load.videoId, c.load.frameNumber)),
                 Some(<<c.load.batch>>))

\* convertToBlob resolves: the thumbnail is cached and the canvas goes back
BlobConverted(key) ==
    /\ key \in store.drawing
    /\ store' = ReturnCanvasToPool(
                    [store EXCEPT !.drawing = @ \ {key},
                                  !.thumbnailLoads = @ \ {key},
                                  !.thumbnailCache = CacheSet(@, key, store.maxThumbnails)])
    /\ returned' = Undefined
    /\ StoreStep("blobConverted", Some(key), Undefined)

\* convertToBlob rejects: the load ends without the canvas going back
BlobFailed(key) ==
    /\ key \in store.drawing
    /\ store' = [store EXCEPT !.drawing = @ \ {key}, !.thumbnailLoads = @ \ {key}]
    /\ returned' = Undefined
    /\ StoreStep("blobFailed", Some(key), Undefined)

\* the loads of a FrameStore, followed through their seeks and captures
NextCapture ==
    \/ \E fps \in FrameRates : PrioritizeAt("a", 0, 1, fps)
    \/ \E fps \in FrameRates : LoadFrameAt("a", 1, fps)
    \/ \E t \in CaptureThumbnailTimes : GetThumbnailSeeking("a", t)
    \/ \E v \in ClipIds :
          \E failed \in SUBSET {store.listeners[v][i] : i \in 1 .. Len(store.listeners[v])} :
              Seeked(v, failed)
    \/ \E c \in store.capturing : BitmapCreated(c)
    \/ \E c \in store.capturing : BitmapFailed(c)
    \/ \E k \in store.drawing : BlobConverted(k)
    \/ \E k \in store.drawing : BlobFailed(k)

SpecCapture == InitCapture /\ [][NextCapture]_vars

-----------------------------------------------------------------------------
(* Operations of the editor store *)

\* the values that the callers of the editor store pass
TrackIdSet == [project : 1 .. MaxProjects, index : {0, VideoTracks}]
ItemSet == [startTime : {0, 1}, duration : {1, 2}]
UpdateSet ==
    [startTime : {Undefined, Some(0), Some(1)}, duration : {Undefined, Some(1), Some(2)}]
EditorTimes == (0 - 1) .. MaxEditorTime

\* one call of an action of the store
EditorCall(name, e) ==
    /\ editor' = e
    /\ timelineBefore' = editor.timeline
    /\ lastOp' = Op(name, Undefined, Undefined)
    /\ UNCHANGED <<controllerVars, storeVars>>

EditorCreateProject ==
    /\ Len(editor.projects) < MaxProjects
    /\ EditorCall("createProject", CreateProject(editor))

EditorLoadProject(id) == EditorCall("loadProject", LoadProject(editor, id))

EditorAddTrackItem(trackId, item) ==
    /\ editor.generated < MaxItems
    /\ EditorCall("addTrackItem", AddTrackItem(editor, trackId, item))

EditorUpdateTrackItem(itemId, updates) ==
    EditorCall("updateTrackItem", UpdateTrackItem(editor, itemId, updates))

EditorDeleteTrackItem(itemId) ==
    EditorCall("deleteTrackItem", DeleteTrackItem(editor, itemId))

EditorSetCurrentTime(time) == EditorCall("setCurrentTime", SetCurrentTime(editor, time))

EditorSeek(time) == EditorCall("seek", TimelineSeek(editor, time))

EditorSetCurrentTimeOnly(time) ==
    EditorCall("setCurrentTimeOnly", SetCurrentTimeOnly(editor, time))

EditorPlay == EditorCall("play", TimelinePlay(editor))

EditorPause == EditorCall("pause", TimelinePause(editor))

\* the editor store on its own, beside a controller and a frame store that
\* are never used
NextEditor ==
    \/ EditorCreateProject
    \/ \E id \in 1 .. MaxProjects : EditorLoadProject(id)
    \/ \E trackId \in TrackIdSet : \E item \in ItemSet : EditorAddTrackItem(trackId, item)
    \/ \E itemId \in 1 .. MaxItems : \E updates \in UpdateSet :
          EditorUpdateTrackItem(itemId, updates)
    \/ \E itemId \in 1 .. MaxItems : EditorDeleteTrackItem(itemId)
    \/ \E time \in EditorTimes : EditorSetCurrentTime(time)
    \/ \E time \in EditorTimes : EditorSeek(time)
    \/ \E time \in EditorTimes : EditorSetCurrentTimeOnly(time)
    \/ EditorPlay
    \/ EditorPause

SpecEditor == Init /\ [][NextEditor]_vars

-----------------------------------------------------------------------------
(* Shorthands for the properties *)

\* the ticker after and before the last operation
Tk == Val(ticker)
Bf == Val(before.ticker)

TickerOp(names) == lastOp.op \in names /\ IsDefined(ticker) /\ IsDefined(before.ticker)

\* frame number n as a frame position
AtFrame(n) == n * TicksPerSecond

-----------------------------------------------------------------------------
(* C1 *)

\* C1: after update(), an assignment to currentFrame or start(), the frame
\* number of a ticker (fps > 0) lies in the permanent boundary:
\* boundary.start <= currentFrame and, when boundary.end is defined,
\* currentFrame < boundary.end.
C1_BoundaryInvariant ==
    (lastOp.op \in {"update", "currentFrame", "start"} /\ IsDefined(ticker)
       /\ Tk.fps > 0) =>
        /\ Tk.boundary.start <= CurrentFrame(Tk)
        /\ IsDefined(Tk.boundary.end) => CurrentFrame(Tk) < Val(Tk.boundary.end)

-----------------------------------------------------------------------------
(* C2 *)

\* C2: in every state of a ticker with fps > 0, time = frame / fps.
C2_TimeIsFrameOverFps ==
    (IsDefined(ticker) /\ Tk.fps > 0) =>
        /\ Tk.time.k = "fin"
        /\ Tk.time.v * Tk.fps = Tk.frame

-----------------------------------------------------------------------------
(* C3 *)

\* the update moved forward onto or past the end edge of the permanent boundary
ReachedEnd ==
    /\ Bf.rate > 0
    /\ IsDefined(Bf.boundary.end)
    /\ Val(advanced).frame >= AtFrame(Val(Bf.boundary.end))

\* the update moved backward onto or past the start edge of the permanent boundary
ReachedStart ==
    /\ Bf.rate < 0
    /\ Val(advanced).frame <= AtFrame(Bf.boundary.start)

\* C3: an update() that moves forward onto or past boundary.end leaves
\* frame = boundary.end - 1 and rate = 0; one that moves backward onto or past
\* boundary.start leaves frame = boundary.start and rate = 0.
C3_CrossingStops ==
    TickerOp({"update"}) =>
        /\ ReachedEnd =>
              Tk.frame = AtFrame(Val(Bf.boundary.end) - 1) /\ Tk.rate = 0
        /\ ReachedStart =>
              Tk.frame = AtFrame(Bf.boundary.start) /\ Tk.rate = 0

\* an update from frame = boundary.end - 1 at rate 1 that reached the end edge
C3_Witness ==
    /\ TickerOp({"update"})
    /\ ReachedEnd
    /\ Bf.rate = 1
    /\ Bf.frame = AtFrame(Val(Bf.boundary.end) - 1)
    /\ Val(advanced).elapsed > 0
    /\ Tk.rate = 0

-----------------------------------------------------------------------------
(* C4 *)

\* the frame position lies strictly inside the boundary b
StrictlyInside(frame, b) ==
    /\ frame > AtFrame(b.start)
    /\ IsDefined(b.end) => frame < AtFrame(Val(b.end))

\* no boundary of the ticker t has anything to clamp
NothingToClamp(t) ==
    /\ StrictlyInside(t.frame, t.boundary)
    /\ IsDefined(t.selection) => StrictlyInside(t.frame, Val(SelectionBoundary(t)))

\* C4: update() over an elapsed time e >= 0 at rate r advances time by e*r and
\* the frame position by e*fps*r before the boundaries are checked (time is
\* never clamped, so it is the time after the update too); with e = 0 the time
\* is unchanged and, when no boundary has anything to clamp, so is the ticker.
C4_UpdateAdvances ==
    (TickerOp({"update"}) /\ Bf.fps > 0) =>
        LET e == now - Bf.frameTick IN
        /\ e >= 0
        /\ Val(advanced).elapsed = e
        /\ Val(advanced).time = Fin(Bf.time.v + e * Bf.rate)
        /\ Val(advanced).frame = Bf.frame + e * Bf.fps * Bf.rate
        /\ Tk.time = Val(advanced).time
        /\ NothingToClamp([Bf EXCEPT !.frame = Val(advanced).frame]) =>
              Tk = [Bf EXCEPT !.time = Val(advanced).time,
                              !.frame = Val(advanced).frame,
                              !.frameTick = now]
        /\ e = 0 => Tk.time = Bf.time
        /\ (e = 0 /\ NothingToClamp(Bf)) => Tk = Bf

\* a backward update over a positive time from inside the boundaries
C4_Witness ==
    /\ TickerOp({"update"})
    /\ Bf.fps > 1
    /\ Bf.rate = -1
    /\ now - Bf.frameTick > 0
    /\ NothingToClamp([Bf EXCEPT !.frame = Val(advanced).frame])
    /\ Tk.frame < Bf.frame

-----------------------------------------------------------------------------
(* C5 *)

\* C5: an assignment to currentFrame clears the selection, and an update() at
\* rate 1 of a ticker without a selection is bounded by the permanent boundary
\* alone: short of boundary.end the frame is the advanced one and the rate
\* stays 1.
C5_SeekClearsSelection ==
    /\ TickerOp({"currentFrame"}) => ~IsDefined(Tk.selection)
    /\ (TickerOp({"update"}) /\ ~IsDefined(Bf.selection) /\ Bf.rate = 1
        /\ (IsDefined(Bf.boundary.end) =>
               Val(advanced).frame < AtFrame(Val(Bf.boundary.end)))) =>
          /\ Tk.frame = Val(advanced).frame
          /\ Tk.rate = 1
          /\ ~IsDefined(Tk.selection)

\* currentFrame was assigned while a selection made by start(from, to) was active
C5_Witness ==
    /\ TickerOp({"currentFrame"})
    /\ IsDefined(Bf.selection)
    /\ Bf.rate = 1
    /\ Tk.rate = 1
    /\ Tk.frame >= AtFrame(Val(Bf.selection).end)

-----------------------------------------------------------------------------
(* C6 *)

\* C6: start(from, to) sets rate to 1; when from or to is supplied the selection
\* becomes {start: from if supplied else 0, end: to if supplied else
\* boundary.end} (checked where that end is a number), for every supplied
\* value, 0 included; start() leaves the selection unchanged.
C6_StartSelection ==
    (TickerOp({"start"}) /\ Tk.fps > 0) =>
        /\ Tk.rate = 1
        /\ (~IsDefined(lastOp.a) /\ ~IsDefined(lastOp.b)) =>
              Tk.selection = Bf.selection
        /\ ((IsDefined(lastOp.a) \/ IsDefined(lastOp.b))
            /\ (IsDefined(lastOp.b) \/ IsDefined(Bf.boundary.end))) =>
              Tk.selection =
                Some([ start |-> IF IsDefined(lastOp.a) THEN Val(lastOp.a) ELSE 0,
                       end   |-> IF IsDefined(lastOp.b) THEN Val(lastOp.b)
                                 ELSE Val(Bf.boundary.end) ])

-----------------------------------------------------------------------------
(* C7 *)

\* C7: stop() and currentRate = 0 leave rate = 0 and no selection and change
\* nothing else; a non-zero currentRate changes the rate alone.
C7_StopAndRate ==
    /\ (TickerOp({"stop"}) \/ (TickerOp({"currentRate"}) /\ lastOp.a = Some(0))) =>
          Tk = [Bf EXCEPT !.rate = 0, !.selection = Undefined]
    /\ (TickerOp({"currentRate"}) /\ lastOp.a # Some(0)) =>
          Tk = [Bf EXCEPT !.rate = Val(lastOp.a)]

\* currentRate = 0 assigned to a moving ticker with a selection, away from frame 0
C7_Witness ==
    /\ TickerOp({"currentRate"})
    /\ lastOp.a = Some(0)
    /\ IsDefined(Bf.selection)
    /\ Bf.rate # 0
    /\ Bf.frame > 0
    /\ Bf.time.v # 0

-----------------------------------------------------------------------------
(* C8 *)

\* the update carried the frame onto or past the end of the active selection
\* (an end of 0 is no end edge)
PastSelectionEnd ==
    /\ IsDefined(Bf.selection)
    /\ Val(Bf.selection).end > 0
    /\ Val(advanced).frame >= AtFrame(Val(Bf.selection).end)

\* the update carried the frame onto or past the end of the permanent boundary
PastBoundaryEnd ==
    /\ IsDefined(Bf.boundary.end)
    /\ Val(advanced).frame >= AtFrame(Val(Bf.boundary.end))

\* C8: an update() at rate > 0 whose step carries the frame onto or past the
\* selection end, the permanent end or both leaves rate = 0.
C8_OversizedStepStops ==
    (TickerOp({"update"}) /\ Bf.rate > 0 /\ (PastSelectionEnd \/ PastBoundaryEnd)) =>
        Tk.rate = 0

\* one step from before the selection end to past the selection end and the
\* permanent end beyond it
C8_Witness ==
    /\ TickerOp({"update"})
    /\ Bf.rate > 0
    /\ PastSelectionEnd
    /\ PastBoundaryEnd
    /\ Val(Bf.selection).end < Val(Bf.boundary.end)
    /\ Bf.frame < AtFrame(Val(Bf.selection).end)
    /\ Tk.rate = 0

-----------------------------------------------------------------------------
(* C9 *)

\* the asset has a zero frame rate or a zero duration
InvalidAsset(a) == a.fps = 0 \/ a.duration = 0

\* C9: setAsset with an invalid asset (fps 0 or duration 0) leaves the
\* controller as it was: the same asset, the same ticker, no notification.
C9_InvalidAssetRejected ==
    (lastOp.op = "setAsset" /\ IsDefined(asset) /\ InvalidAsset(Val(asset))) =>
        /\ asset = before.asset
        /\ ticker = before.ticker
        /\ events = <<>>

-----------------------------------------------------------------------------
(* C10 *)

\* C10: setAsset with a valid asset leaves a fresh ticker (not playing, frame 0,
\* no selection, permanent boundary [0, floor(duration * fps))) and notifies
\* one state change, which reports that state; setAsset(null) leaves no ticker
\* and getCurrentState() null.
C10_SetAssetReady ==
    lastOp.op = "setAsset" =>
        /\ (IsDefined(asset) /\ ~InvalidAsset(Val(asset))) =>
              /\ IsDefined(ticker)
              /\ ~IsPlaying(Tk)
              /\ CurrentFrame(Tk) = 0
              /\ Tk.frame = 0
              /\ Tk.time = Fin(0)
              /\ Tk.fps = Val(asset).fps
              /\ ~IsDefined(Tk.selection)
              /\ Tk.boundary.start = 0
              /\ IsDefined(Tk.boundary.end)
              /\ LET n == Val(Tk.boundary.end) IN
                    /\ AtFrame(n) <= Val(asset).duration * Val(asset).fps
                    /\ Val(asset).duration * Val(asset).fps < AtFrame(n + 1)
              /\ Len(events) = 1
              /\ events[1].type = "state"
              /\ events[1].state.isPlaying = FALSE
              /\ events[1].state.currentFrame = 0
        /\ ~IsDefined(asset) =>
              /\ ~IsDefined(ticker)
              /\ ~IsDefined(GetCurrentState(ticker, asset))
              /\ events = <<>>

\* a valid asset, of a fractional number of frames, replaced the asset of a
\* controller that was playing away from frame 0
C10_Witness ==
    /\ lastOp.op = "setAsset"
    /\ IsDefined(asset)
    /\ ~InvalidAsset(Val(asset))
    /\ (Val(asset).duration * Val(asset).fps) % TicksPerSecond # 0
    /\ IsDefined(before.ticker)
    /\ IsPlaying(Bf)
    /\ Bf.frame > 0
    /\ ~IsPlaying(Tk)

-----------------------------------------------------------------------------
(* C11 *)

\* the number of frames of the bound asset: floor(duration * fps)
AssetFrames == (Val(asset).duration * Val(asset).fps) \div TicksPerSecond

\* the last operation was a render tick that updated a ticker playing forward
\* an asset of at least one frame
PlayingTick ==
    /\ lastOp.op = "render"
    /\ IsDefined(ticker) /\ IsDefined(before.ticker) /\ IsDefined(asset)
    /\ IsDefined(advanced)
    /\ Bf.rate > 0
    /\ AssetFrames >= 1

\* the last operation was seekToTime, during playback, to a time inside the asset
SeekInsideWhilePlaying ==
    /\ lastOp.op = "seekToTime"
    /\ IsDefined(ticker) /\ IsDefined(before.ticker) /\ IsDefined(asset)
    /\ IsPlaying(Bf)
    /\ AssetFrames >= 1
    /\ Val(lastOp.a) * Val(asset).fps >= 0
    /\ Val(lastOp.a) * Val(asset).fps < AtFrame(AssetFrames)

-----------------------------------------------------------------------------
(* C12 *)

\* the last operation was a seek on a controller with a valid asset bound
SeekNonEmpty ==
    /\ lastOp.op \in {"seekToFrame", "seekToTime"}
    /\ IsDefined(before.ticker) /\ IsDefined(before.asset)
    /\ ~InvalidAsset(Val(before.asset))

\* C12: with an asset bound, seekToFrame(n) and seekToTime(t) leave isPlaying
\* as it was before the call, for every target, and notify one state change
\* followed by one time update.
C12_SeekKeepsPlayState ==
    SeekNonEmpty =>
        /\ IsDefined(ticker)
        /\ IsPlaying(Tk) = IsPlaying(Bf)
        /\ Len(events) = 2
        /\ events[1].type = "state"
        /\ events[2].type = "time"

-----------------------------------------------------------------------------
(* C13 *)

\* the last operation changed isPlaying of a controller with a valid asset bound
PlayStateChanged ==
    /\ lastOp.op \in {"play", "pause", "render", "initialize"}
    /\ IsDefined(ticker) /\ IsDefined(before.ticker) /\ IsDefined(asset)
    /\ ~InvalidAsset(Val(asset))
    /\ IsPlaying(Tk) # IsPlaying(Bf)

\* C13: an operation that changes isPlaying (play, pause, a render tick that
\* stops on a boundary) notifies a state change reporting the new isPlaying.
C13_PlayStateAnnounced ==
    PlayStateChanged =>
        \E i \in 1 .. Len(events) :
            /\ events[i].type = "state"
            /\ events[i].state.isPlaying = IsPlaying(Tk)

-----------------------------------------------------------------------------
(* C14 *)

\* the last operation was a render tick of a controller with a valid asset bound
TickNonEmpty ==
    /\ lastOp.op = "render"
    /\ IsDefined(ticker) /\ IsDefined(before.ticker) /\ IsDefined(asset)
    /\ ~InvalidAsset(Val(asset))

\* C14: a render tick that begins while playing notifies one time update
\* carrying the ticker's time; a tick that begins while not playing, or with
\* no ticker, notifies no time update.
C14_TickTimeUpdate ==
    /\ TickNonEmpty =>
          IF IsPlaying(Bf)
          THEN events = <<[type |-> "time", time |-> Tk.time]>>
          ELSE events = <<>>
    /\ (lastOp.op = "render" /\ ~IsDefined(before.ticker)) => events = <<>>

-----------------------------------------------------------------------------
(* C15 *)

\* the last operation was a render tick that delivered a time update
TickDeliveredTime ==
    /\ lastOp.op \in {"render", "initialize"}
    /\ timeLog.order # "none"

\* C15 as stated: a time update delivered by a render tick is never lower
\* than the time update delivered before it (here: both finite, a valid asset
\* bound, and no seek involved in either).
C15_TimeUpdatesMonotonic ==
    (TickDeliveredTime /\ timeLog.finite /\ ~timeLog.afterSeek
       /\ ~InvalidAsset(Val(asset))) =>
        timeLog.order # "lower"

\* C15: a time update delivered by a render tick is lower than the time
\* update delivered before it only when setAsset bound an asset in between.
C15_TimeUpdatesMonotonicPerAsset ==
    (TickDeliveredTime /\ timeLog.order = "lower") => timeLog.swapped

\* a render tick delivered a later time than the tick before it, with the
\* same asset bound
C15_Witness ==
    /\ TickDeliveredTime
    /\ lastOp.op = "render"
    /\ timeLog.order = "higher"
    /\ ~timeLog.swapped
    /\ ~InvalidAsset(Val(asset))
    /\ IsPlaying(Bf)
    /\ Val(timeLog.last) = Tk.time

-----------------------------------------------------------------------------
(* C16 *)

\* the last operation was play, pause or a seek on a controller with no asset
\* bound or no ticker
OpWhileEmpty ==
    /\ lastOp.op \in {"play", "pause", "seekToFrame", "seekToTime"}
    /\ (~IsDefined(before.asset) \/ ~IsDefined(before.ticker))

\* C16: with no asset bound, play(), pause(), seekToFrame(n) and seekToTime(t)
\* leave the asset, the ticker (none), the renderer and the scheduled frame as
\* they were and deliver no notification.
C16_EmptyIgnoresCommands ==
    OpWhileEmpty =>
        /\ Snapshot = before
        /\ ~IsDefined(ticker)
        /\ events = <<>>

\* a command reached a controller whose asset had been played and then unbound
C16_Witness ==
    /\ OpWhileEmpty
    /\ ~IsDefined(asset)
    /\ renderer
    /\ IsDefined(timeLog.last)
    /\ ~IsDefined(ticker)

-----------------------------------------------------------------------------
(* C17 *)

\* the keys of a cache
Keys(c) == {c[i] : i \in 1 .. Len(c)}

\* key k is the most recently used of cache c, and the other keys of c are
\* the keys `others`, in the order they have in cache b
MostRecentOver(c, k, others, b) ==
    /\ Len(c) = Cardinality(others) + 1
    /\ c[Len(c)] = k
    /\ SubSeq(c, 1, Len(c) - 1) = SelectSeq(b, LAMBDA x : x \in others)

\* the last operation was getFrame for a cached frame
FrameHit ==
    /\ lastOp.op = "getFrame"
    /\ CacheHas(storeBefore.frameCache, Val(lastOp.a))

\* the last operation stored a frame in the frame cache
FrameStored == lastOp.op = "frameLoaded"

\* C17: in a frame cache of capacity N, getFrame of a cached key returns it
\* and makes it the most recently used, every other key keeping its place;
\* storing a key that is not cached in a cache of N keys removes the least
\* recently used key alone and leaves the other N - 1 keys and the new key;
\* storing a key that is not cached in a cache of fewer keys, or a cached key,
\* removes nothing.
C17_LruEviction ==
    LET b == storeBefore.frameCache
        c == store.frameCache
        k == Val(lastOp.a)
    IN  /\ FrameHit =>
              /\ returned = Some(k)
              /\ MostRecentOver(c, k, Keys(b) \ {k}, b)
        /\ FrameStored =>
              IF k \notin Keys(b) /\ Len(b) = store.maxFrames
              THEN /\ MostRecentOver(c, k, Keys(b) \ {b[1]}, b)
                   /\ b[1] \notin Keys(c)
                   /\ Len(c) = store.maxFrames
              ELSE /\ MostRecentOver(c, k, Keys(b) \ {k}, b)
                   /\ Keys(b) \subseteq Keys(c)

\* a frame was stored in a full cache of two or more frames, whose least
\* recently used key was the higher frame of the two, and that key alone went
C17_Witness ==
    /\ FrameStored
    /\ store.maxFrames >= 2
    /\ Len(storeBefore.frameCache) = store.maxFrames
    /\ Val(lastOp.a) \notin Keys(storeBefore.frameCache)
    /\ storeBefore.frameCache[1].frameNumber > storeBefore.frameCache[2].frameNumber
    /\ storeBefore.frameCache[1] \notin Keys(store.frameCache)
    /\ storeBefore.frameCache[2] \in Keys(store.frameCache)

-----------------------------------------------------------------------------
(* C18 *)

\* the operations that read or fill the thumbnail cache, and those that read
\* or fill the frame cache or work on the queue
ThumbnailOps == {"getThumbnail", "thumbnailLoaded", "thumbnailLoadFailed"}
FrameOps ==
    {"getFrame", "prioritize", "loadFrameImmediate", "frameLoaded", "frameLoadFailed",
     "processQueue"}

-----------------------------------------------------------------------------
(* C19 *)

\* the requests of queue q for frame f of video v
RequestsFor(q, v, f) == SelectSeq(q, LAMBDA r : r.videoId = v /\ r.frameNumber = f)

\* the last operation was a getFrame that missed a frame already queued
MissOfQueued ==
    /\ lastOp.op = "getFrame"
    /\ returned = Undefined
    /\ Queued(storeBefore.priorityQueue, Val(lastOp.a).videoId, Val(lastOp.a).frameNumber)

\* the last operation was a prioritize during a pass of processQueue, which
\* therefore took nothing from the queue
PrioritizeWhileProcessing ==
    /\ lastOp.op = "prioritize"
    /\ storeBefore.isProcessing

\* C19: the queue never holds two requests for the same frame of the same
\* video; a getFrame that enqueues a frame already queued leaves the queue as
\* it was, and a prioritize leaves every queued request its priority and its
\* place among the requests queued before.
C19_QueueUnique ==
    /\ \A i, j \in 1 .. Len(store.priorityQueue) :
          (/\ store.priorityQueue[i].videoId = store.priorityQueue[j].videoId
           /\ store.priorityQueue[i].frameNumber = store.priorityQueue[j].frameNumber)
              => i = j
    /\ MissOfQueued => store.priorityQueue = storeBefore.priorityQueue
    /\ PrioritizeWhileProcessing =>
          SelectSeq(store.priorityQueue,
                    LAMBDA r : Queued(storeBefore.priorityQueue, r.videoId, r.frameNumber))
              = storeBefore.priorityQueue

\* getFrame missed a frame that prioritize had queued with a higher priority,
\* behind a request of another video
C19_Witness ==
    /\ MissOfQueued
    /\ Len(store.priorityQueue) >= 2
    /\ store.priorityQueue[1].videoId # Val(lastOp.a).videoId
    /\ RequestsFor(store.priorityQueue, Val(lastOp.a).videoId,
                    Val(lastOp.a).frameNumber)[1].priority > PriorityUnit

-----------------------------------------------------------------------------
(* C20 *)

\* the last operation was a getFrame of a frame that is not cached
FrameMiss ==
    /\ lastOp.op = "getFrame"
    /\ ~CacheHas(storeBefore.frameCache, Val(lastOp.a))

\* the requests queued for the frame of the last operation, after and before it
ForFrame == RequestsFor(store.priorityQueue, Val(lastOp.a).videoId, Val(lastOp.a).frameNumber)
ForFrameBefore ==
    RequestsFor(storeBefore.priorityQueue, Val(lastOp.a).videoId, Val(lastOp.a).frameNumber)

\* C20 as stated: a getFrame of a frame that is not cached returns null,
\* starts no load and waits for none, and leaves at most one request for the
\* frame in the queue, at priority 1.
C20_MissQueuesOnceAtOne ==
    FrameMiss =>
        /\ returned = Undefined
        /\ store.loads = storeBefore.loads
        /\ Len(ForFrame) <= 1
        /\ \A i \in 1 .. Len(ForFrame) : ForFrame[i].priority = PriorityUnit

\* C20: a getFrame of a frame that is not cached returns null, starts no load
\* and waits for none, and leaves one request for the frame in the queue: the
\* one that was queued before, with its priority, or else a new one at
\* priority 1; a second getFrame leaves the queue as the first left it.
C20_MissQueuesOnce ==
    FrameMiss =>
        /\ returned = Undefined
        /\ store.loads = storeBefore.loads
        /\ store.frameCache = storeBefore.frameCache
        /\ Len(ForFrame) = 1
        /\ IF ForFrameBefore # <<>>
           THEN store.priorityQueue = storeBefore.priorityQueue
           ELSE ForFrame[1].priority = PriorityUnit

\* a second getFrame missed a frame that the first had queued at priority 1,
\* while a load of another frame was in flight
C20_Witness ==
    /\ FrameMiss
    /\ ForFrameBefore # <<>>
    /\ ForFrameBefore[1].priority = PriorityUnit
    /\ Len(store.priorityQueue) >= 2
    /\ store.loads # {}
    /\ returned = Undefined

-----------------------------------------------------------------------------
(* C21 *)

\* the frame numbers of the range of a prioritize call
RangeOf(o) == Val(o.b)[1] .. Val(o.b)[2]

\* the last two operations were prioritize calls on the same video whose
\* ranges have a frame in common
OverlappingPrioritize ==
    /\ lastOp.op = "prioritize"
    /\ IsDefined(prevRange)
    /\ Val(prevRange).a = lastOp.a
    /\ RangeOf(Val(prevRange)) \cap RangeOf(lastOp) # {}

\* C21: after the second of two prioritize calls on the same video with
\* overlapping ranges the queue is longer than before that call by the number
\* of frames of the second range that are not in the first: a frame the first
\* call requested is not queued again, be it still queued or in the batch
\* that is being loaded.
C21_OverlapNotDuplicated ==
    OverlappingPrioritize =>
        Len(store.priorityQueue) - Len(storeBefore.priorityQueue)
            = Cardinality(RangeOf(lastOp) \ RangeOf(Val(prevRange)))

-----------------------------------------------------------------------------
(* C22 *)

\* the last operation enqueued requests and took none from the queue
EnqueueOnly ==
    \/ lastOp.op = "getFrame"
    \/ lastOp.op = "prioritize" /\ storeBefore.isProcessing

\* the request was queued before the last operation
QueuedBefore(r) == Queued(storeBefore.priorityQueue, r.videoId, r.frameNumber)

\* the requests the last operation asked to enqueue
Asked ==
    IF lastOp.op = "getFrame"
    THEN {Request(Val(lastOp.a).videoId, Val(lastOp.a).frameNumber, PriorityUnit)}
    ELSE {Request(Val(lastOp.a).videoId, f, RangePriority(f, Val(lastOp.b)[1], Val(lastOp.b)[2])) :
             f \in RangeOf(lastOp)}

\* the lowest priority in the queue q
LowestPriority(q) == q[Len(q)].priority

\* the request r is in the queue q
InQueue(q, r) == \E i \in 1 .. Len(q) : q[i] = r

\* C22: the queue is sorted by descending priority and is never longer than
\* 1000.  An operation that enqueues keeps the requests queued before in
\* their order and drops only from their end; a request it put into the
\* queue stands behind every older request of its priority or a higher one;
\* and a new request of a priority above the lowest one queued is in the
\* queue afterwards.
C22_SortedAndLimited ==
    LET q == store.priorityQueue
        qb == storeBefore.priorityQueue
        new == {r \in Asked : InQueue(q, r) /\ ~InQueue(qb, r)}
        kept == SelectSeq(q, LAMBDA r : r \notin new)
    IN  /\ \A i \in 1 .. Len(q) - 1 : q[i].priority >= q[i + 1].priority
        /\ Len(q) <= QueueLimit
        /\ EnqueueOnly =>
              /\ kept = SubSeq(qb, 1, Len(kept))
              /\ \A i \in 1 .. Len(q) :
                    q[i] \in new =>
                        \A j \in i + 1 .. Len(q) :
                            q[j] \notin new => q[j].priority < q[i].priority
              /\ \A r \in Asked :
                    (qb # <<>> /\ ~QueuedBefore(r) /\ r.priority > LowestPriority(qb))
                        => InQueue(q, r)

\* a prioritize call found the queue at its limit: its request, of priority
\* 10, went behind the queued request of that priority, and the last request
\* of the queue was dropped
C22_Witness ==
    LET q == store.priorityQueue
        qb == storeBefore.priorityQueue
    IN  /\ lastOp.op = "prioritize"
        /\ storeBefore.isProcessing
        /\ Len(qb) = QueueLimit
        /\ Len(q) = QueueLimit
        /\ q[1] = qb[1]
        /\ ~QueuedBefore(q[2])
        /\ q[2].priority = q[1].priority
        /\ q[2].priority > LowestPriority(qb)
        /\ q[QueueLimit] = qb[QueueLimit - 1]
        /\ ~Queued(q, qb[QueueLimit].videoId, qb[QueueLimit].frameNumber)

-----------------------------------------------------------------------------
(* C23 *)

\* the last operation invoked processQueue
Invoked == lastOp.op \in {"prioritize", "processQueue"}

\* the queue processQueue found when the last operation invoked it
Found ==
    IF lastOp.op = "prioritize"
    THEN EnqueueRange(storeBefore.priorityQueue, Val(lastOp.a).videoId,
                      Val(lastOp.b)[1], Val(lastOp.b)[1], Val(lastOp.b)[2])
    ELSE storeBefore.priorityQueue

\* the loads the last operation started
Started == store.loads \ storeBefore.loads

\* the number of requests a pass takes from the queue q
Taken(q) == IF Len(q) < BatchSize THEN Len(q) ELSE BatchSize

\* C23: an invocation of processQueue during a pass takes no request from the
\* queue and starts no load; an invocation outside a pass takes the first 5
\* requests of the queue, or all when there are fewer, and starts a load for
\* those, and only those, that are not cached and whose video is known; never
\* are more than 5 loads of the scheduler in flight.
C23_NonReentrant ==
    /\ Cardinality(BatchLoads(store)) <= BatchSize
    /\ (Invoked /\ storeBefore.isProcessing) =>
          /\ store.priorityQueue = Found
          /\ Started = {}
          /\ store.isProcessing
    /\ (Invoked /\ ~storeBefore.isProcessing) =>
          /\ store.priorityQueue = SubSeq(Found, Taken(Found) + 1, Len(Found))
          /\ Started \subseteq {Load(Found[i].videoId, Found[i].frameNumber, TRUE) :
                                   i \in 1 .. Taken(Found)}
          /\ \A l \in Started :
                ~CacheHas(storeBefore.frameCache, FrameKey(l.videoId, l.frameNumber))
    /\ ~Invoked => BatchLoads(store) \subseteq BatchLoads(storeBefore)

\* prioritize was called during a pass that had taken 5 of 7 requests and
\* waits for its 5 loads: nothing was taken, no load was started
C23_Witness ==
    /\ lastOp.op = "prioritize"
    /\ storeBefore.isProcessing
    /\ Cardinality(BatchLoads(store)) = BatchSize
    /\ Len(storeBefore.priorityQueue) >= 2
    /\ Len(store.priorityQueue) = Len(storeBefore.priorityQueue) + 1
    /\ Started = {}

-----------------------------------------------------------------------------
(* C24 *)

\* C24: no two loadFrameImmediate calls for the same video are at once
\* between setting video.currentTime and the capture that follows 'seeked'.
C24_OneSeekPerSource ==
    \A l, m \in store.loads : l.videoId = m.videoId => l = m

-----------------------------------------------------------------------------
(* C25 *)

\* C25: every loadFrameImmediate call that waits for 'seeked' comes to an end,
\* with a frame or with a failure, also when the video never fires the event;
\* and so does the pass of processQueue that waits for it.
C25_LoadCompletes ==
    /\ \A l \in LoadSet : (l \in store.loads) ~> (l \notin store.loads)
    /\ store.isProcessing ~> ~store.isProcessing

-----------------------------------------------------------------------------
(* C26 *)

\* the last operation was a getFrame of a frame of a video with a clip that
\* missed and left a request for the frame in the queue
MissOfBound(r) ==
    /\ lastOp = Op("getFrame", Some(FrameKey(r[1], r[2])), Undefined)
    /\ returned = Undefined
    /\ r[1] \in store.videoElements
    /\ Queued(store.priorityQueue, r[1], r[2])

\* the last step was a reset or a load that failed
Disturbed == lastOp.op \in {"reset", "frameLoadFailed"}

\* C26: after a getFrame missed a frame of a video with a clip, the frame is
\* at some time in the cache, so that getFrame returns it, unless a reset or a
\* failed load comes in between; no call of prioritize is needed for that.
C26_MissLeadsToFrame ==
    \A r \in QueueRequests :
        [](MissOfBound(r) =>
              <>(CacheHas(store.frameCache, FrameKey(r[1], r[2])) \/ Disturbed))

-----------------------------------------------------------------------------
(* C27 *)

\* the frames of the requests queued at the start
DrainFrames == MaxStoreFrame + 1 .. MaxStoreFrame + BatchSize + 1

\* the last operation started a pass of processQueue, which left the request
\* for frame f of video "a" in the queue
LeftBehind(f) ==
    /\ Invoked
    /\ ~storeBefore.isProcessing
    /\ Found # <<>>
    /\ Queued(store.priorityQueue, "a", f)

\* a call of prioritize
PrioritizeCall == lastOp'.op = "prioritize"

\* the running flag is set only while a pass waits for its loads
FlagFollowsPass == store.isProcessing => BatchLoads(store) # {}

\* the step that ends a pass takes nothing from the queue and starts no load:
\* when requests are left it sets a timer for the next pass
Rescheduled ==
    (/\ lastOp.op \in {"frameLoaded", "frameLoadFailed"}
     /\ storeBefore.isProcessing
     /\ ~store.isProcessing) =>
        /\ store.priorityQueue = storeBefore.priorityQueue
        /\ Started = {}
        /\ store.timers = storeBefore.timers + (IF store.priorityQueue # <<>> THEN 1 ELSE 0)

\* C27 as stated: a pass that ends with requests left sets a timer for the
\* next one; when every load comes to an end, a request that a pass left in
\* the queue is at some time removed from it; and the running flag is set
\* only while a pass waits for its loads.
C27_QueueDrains ==
    /\ []FlagFollowsPass
    /\ []Rescheduled
    /\ \A f \in DrainFrames :
          [](LeftBehind(f) => <>~Queued(store.priorityQueue, "a", f))

\* C27: the same, for the behaviours in which prioritize is not called again
\* and again for ever.
C27_QueueDrainsWhenLeftAlone ==
    /\ []FlagFollowsPass
    /\ []Rescheduled
    /\ \A f \in DrainFrames :
          \/ []<><<PrioritizeCall>>_store
          \/ [](LeftBehind(f) => <>~Queued(store.priorityQueue, "a", f))

\* a pass set up by the timer of the pass before took the request that pass
\* had left in the queue
C27_Witness ==
    /\ lastOp.op = "processQueue"
    /\ ~storeBefore.isProcessing
    /\ storeBefore.timers > 0
    /\ \E f \in DrainFrames :
          /\ Queued(storeBefore.priorityQueue, "a", f)
          /\ ~Queued(store.priorityQueue, "a", f)
          /\ Load("a", f, TRUE) \in store.loads

-----------------------------------------------------------------------------
(* C28 *)

\* the last step was the end of a load of a batch: with a frame, or failed
BatchLoadEnded(name) == lastOp.op = name /\ lastOp.b = Some(<<TRUE>>)

\* the requests a pass takes from the queue q that it starts a load for
Loadable(q) ==
    {Load(q[i].videoId, q[i].frameNumber, TRUE) : i \in
        {j \in 1 .. Taken(q) :
            /\ q[j].videoId \in storeBefore.videoElements
            /\ ~CacheHas(storeBefore.frameCache, FrameKey(q[j].videoId, q[j].frameNumber))}}

\* C28: a load of a batch that fails leaves the cache as it was and the other
\* loads of the batch in flight, and the pass goes on until the last of them
\* has ended; a load of a batch that gives a frame caches it whatever became
\* of the others; a pass starts the loads of all its requests that can be
\* loaded, whatever the others are; and the failure is returned to no caller.
C28_FailureStaysInBatch ==
    /\ BatchLoadEnded("frameLoadFailed") =>
          /\ store.frameCache = storeBefore.frameCache
          /\ store.loads = storeBefore.loads \ {Load(Val(lastOp.a).videoId,
                                                     Val(lastOp.a).frameNumber, TRUE)}
          /\ store.priorityQueue = storeBefore.priorityQueue
          /\ returned = Undefined
    /\ BatchLoadEnded("frameLoaded") =>
          /\ CacheHas(store.frameCache, Val(lastOp.a))
          /\ store.loads = storeBefore.loads \ {Load(Val(lastOp.a).videoId,
                                                     Val(lastOp.a).frameNumber, TRUE)}
    /\ store.isProcessing <=> BatchLoads(store) # {}
    /\ (Invoked /\ ~storeBefore.isProcessing) => Started = Loadable(Found)

\* one load of a batch of five failed: its frame is not cached, the four
\* others are in flight and the pass waits for them
C28_Witness ==
    /\ BatchLoadEnded("frameLoadFailed")
    /\ Cardinality(BatchLoads(storeBefore)) = BatchSize
    /\ Cardinality(BatchLoads(store)) = BatchSize - 1
    /\ ~CacheHas(store.frameCache, Val(lastOp.a))
    /\ store.isProcessing

-----------------------------------------------------------------------------
(* C29 *)

\* the last operation was a getFrame for a video that has no clip
GetFrameUnbound ==
    /\ lastOp.op = "getFrame"
    /\ Val(lastOp.a).videoId \notin storeBefore.videoElements

\* C29: getFrame for a video without a clip returns null and leaves the two
\* caches and the queue as they were.
C29_UnboundIsNoOp ==
    GetFrameUnbound =>
        /\ returned = Undefined
        /\ store.frameCache = storeBefore.frameCache
        /\ store.thumbnailCache = storeBefore.thumbnailCache
        /\ store.priorityQueue = storeBefore.priorityQueue

-----------------------------------------------------------------------------
(* C30 *)

\* C30: right after reset() the two caches, the queue and the set of video
\* elements are empty, and getStats() reports 0 frames, 0 thumbnails and a
\* queue of length 0.
C30_ResetEmpties ==
    lastOp.op = "reset" =>
        /\ store.frameCache = <<>>
        /\ store.thumbnailCache = <<>>
        /\ store.priorityQueue = <<>>
        /\ store.videoElements = {}
        /\ GetStats(store) = [framesCached |-> 0, thumbnailsCached |-> 0, queueLength |-> 0]

\* reset() was called on a store with a cached frame, a cached thumbnail, a
\* queued request and a clip, during a pass of processQueue
C30_Witness ==
    /\ lastOp.op = "reset"
    /\ storeBefore.frameCache # <<>>
    /\ storeBefore.thumbnailCache # <<>>
    /\ storeBefore.priorityQueue # <<>>
    /\ storeBefore.videoElements # {}
    /\ storeBefore.isProcessing
    /\ GetStats(store).queueLength = 0

-----------------------------------------------------------------------------
(* C31 *)

\* p is max(1, 10 - |f - (s + e) / 2|), in half points: the larger of the
\* floor and of 10 less the distance, whichever side of the midpoint f is on
IsRangePriority(p, f, s, e) ==
    \E d \in {2 * f - (s + e), (s + e) - 2 * f} :
        /\ d >= 0
        /\ p >= PriorityUnit
        /\ p >= TopPoints * PriorityUnit - d
        /\ p \in {PriorityUnit, TopPoints * PriorityUnit - d}

\* what the last call, a prioritize call, was given
PrioritizedVideo == Val(lastOp.a).videoId
PrioritizedStart == Val(lastOp.b)[1]
PrioritizedEnd == Val(lastOp.b)[2]

\* the frames of the range that were not queued before the call
FreshFrames ==
    {f \in RangeOf(lastOp) : ~Queued(storeBefore.priorityQueue, PrioritizedVideo, f)}

\* the requests the pass at the end of the call takes: none when a pass was in
\* progress, else up to a batch
TakenByCall ==
    LET n == Len(storeBefore.priorityQueue) + Cardinality(FreshFrames)
    IN  IF storeBefore.isProcessing THEN 0
        ELSE IF n < BatchSize THEN n ELSE BatchSize

\* C31: after prioritize(videoId, startFrame, endFrame) the queue holds the
\* requests queued before, unchanged, and one request for every frame of
\* startFrame .. endFrame that was not queued, at priority
\* max(1, 10 - |frame - (startFrame + endFrame) / 2|), less the batch that the
\* pass at the end of the call takes from the front; that priority is never
\* below 1 and does not grow with the distance from the midpoint.  (A queue
\* that the call would carry past its limit is the case of C22.)
C31_RangeEnqueued ==
    (lastOp.op = "prioritize"
       /\ Len(storeBefore.priorityQueue) + Cardinality(FreshFrames) <= QueueLimit) =>
        LET q == store.priorityQueue
            qb == storeBefore.priorityQueue
            v == PrioritizedVideo
        IN  /\ \A i \in 1 .. Len(q) :
                  \/ InQueue(qb, q[i])
                  \/ /\ q[i].videoId = v
                     /\ q[i].frameNumber \in FreshFrames
                     /\ IsRangePriority(q[i].priority, q[i].frameNumber,
                                        PrioritizedStart, PrioritizedEnd)
            /\ Len(q) = Len(qb) + Cardinality(FreshFrames) - TakenByCall
            /\ \A i \in 1 .. Len(qb) :
                  InQueue(q, qb[i]) \/ \A j \in 1 .. Len(q) : q[j].priority <= qb[i].priority
            /\ \A f \in FreshFrames :
                  \/ Queued(q, v, f)
                  \/ \A j \in 1 .. Len(q) :
                        \E p \in q[j].priority .. TopPoints * PriorityUnit :
                            IsRangePriority(p, f, PrioritizedStart, PrioritizedEnd)
            /\ \A i \in 1 .. Len(q), j \in 1 .. Len(q) :
                  LET f == q[i].frameNumber
                      g == q[j].frameNumber
                  IN  ( /\ q[i].videoId = v /\ f \in FreshFrames
                        /\ q[j].videoId = v /\ g \in FreshFrames
                        /\ \/ f <= g /\ 2 * g <= PrioritizedStart + PrioritizedEnd
                           \/ f >= g /\ 2 * g >= PrioritizedStart + PrioritizedEnd )
                          => /\ q[i].priority <= q[j].priority
                             /\ q[i].priority >= PriorityUnit

\* prioritize was called during a pass for a range of an even number of
\* frames: the frame that getFrame had queued kept its priority 1, the two
\* frames next to the midpoint got 9.5, and the last frame, further than 10
\* from the midpoint, got 1
C31_Witness ==
    LET q == store.priorityQueue
    IN  /\ lastOp.op = "prioritize"
        /\ storeBefore.isProcessing
        /\ storeBefore.priorityQueue = <<Request("b", 0, PriorityUnit)>>
        /\ PrioritizedStart = 0
        /\ (PrioritizedStart + PrioritizedEnd) % 2 = 1
        /\ Len(q) = PrioritizedEnd + 1
        /\ q[1].priority = TopPoints * PriorityUnit - 1
        /\ q[2].priority = TopPoints * PriorityUnit - 1
        /\ q[1].frameNumber + 1 = q[2].frameNumber
        /\ InQueue(q, Request("b", 0, PriorityUnit))
        /\ InQueue(q, Request("b", PrioritizedEnd, PriorityUnit))
        /\ q[Len(q)].frameNumber = PrioritizedEnd

-----------------------------------------------------------------------------
(* C32 *)

\* the last step returned a canvas to the pool
CanvasReturned == lastOp.op \in {"bitmapCreated", "blobConverted"}

\* C32: the canvas pool never holds more than maxCanvasPool canvases, whatever
\* frame captures and thumbnail captures were made and however they ended; a
\* canvas that is returned goes into a pool that is not full and is dropped
\* when the pool is full; a capture that fails returns none.
C32_PoolBounded ==
    /\ store.canvasPool >= 0
    /\ store.canvasPool <= store.maxCanvasPool
    /\ CanvasReturned =>
          store.canvasPool = IF storeBefore.canvasPool < store.maxCanvasPool
                             THEN storeBefore.canvasPool + 1
                             ELSE storeBefore.canvasPool
    /\ lastOp.op \in {"bitmapFailed", "blobFailed"} =>
          store.canvasPool = storeBefore.canvasPool

\* a frame capture and a thumbnail capture each held a canvas, one of them
\* made new because the pool of one canvas was empty; the first return filled
\* the pool, and the second canvas was returned to the full pool
C32_Witness ==
    /\ CanvasReturned
    /\ lastOp.op = "blobConverted"
    /\ storeBefore.capturing = {}
    /\ storeBefore.frameCache # <<>>
    /\ storeBefore.canvasPool = storeBefore.maxCanvasPool
    /\ store.canvasPool = store.maxCanvasPool
    /\ store.thumbnailCache # <<>>

-----------------------------------------------------------------------------
(* C33 *)

\* the loads the last operation started
StartedLoads == store.loads \ storeBefore.loads

\* C33: a load seeks its video to frameNumber / fps at the frame rate of the
\* source: a load that the pass at the end of prioritize(videoId, startFrame,
\* endFrame, fps) starts for a frame of the range assigns frameNumber / fps to
\* currentTime with the fps of the call, and so does
\* loadFrameImmediate(videoId, frameNumber, fps).
C33_SeeksAtSourceRate ==
    /\ lastOp.op = "prioritize" =>
          LET v == Val(lastOp.a).videoId
              fps == Val(lastOp.a).fps
              started == {l \in StartedLoads : l.videoId = v /\ l.frameNumber \in RangeOf(lastOp)}
          IN  /\ \A l \in started : LoadTime(l) = SeekTime(l.frameNumber, fps)
              /\ started # {} =>
                    store.currentTime[v] \in {SeekTime(l.frameNumber, fps) : l \in started}
    /\ (lastOp.op = "loadFrameImmediate" /\ StartedLoads # {}) =>
          store.currentTime[Val(lastOp.a).videoId]
              = SeekTime(Val(lastOp.a).frameNumber, Val(lastOp.b)[1])

-----------------------------------------------------------------------------
(* C34 *)

\* before the update a selection [from, to) that lies inside the permanent
\* boundary was active and the rate was 1
SelectionPlaying ==
    /\ TickerOp({"update"})
    /\ IsDefined(Bf.selection)
    /\ Bf.rate = 1
    /\ Bf.boundary.start <= Val(Bf.selection).start
    /\ Val(Bf.selection).start < Val(Bf.selection).end
    /\ IsDefined(Bf.boundary.end) => Val(Bf.selection).end <= Val(Bf.boundary.end)

\* C34: an update() during the playback of a selection [from, to) that lies
\* inside the permanent boundary leaves currentFrame at to - 1 at most,
\* whatever time has elapsed.
C34_SelectionEndHolds ==
    SelectionPlaying => CurrentFrame(Tk) <= Val(Bf.selection).end - 1

-----------------------------------------------------------------------------
(* C35 *)

\* C35: the image cached under the key of (videoId, f) shows that video at
\* the position of frame f, f / fps for a frame rate of the sources: a load
\* never caches under its key what the video showed at the position another
\* load had sought.
C35_ImageOfItsFrame ==
    \A i \in store.images :
        /\ i.image.videoId = i.key.videoId
        /\ \E fps \in FrameRates : i.image.time = SeekTime(i.key.frameNumber, fps)

-----------------------------------------------------------------------------
(* C36 *)

\* a load came to its end while no video was bound.  Loads start for bound
\* videos only and reset alone unbinds them, so the load was in flight when
\* reset was last called, and no clip was added since
LoadOutlivedReset ==
    /\ lastOp.op \in {"frameLoaded", "thumbnailLoaded"}
    /\ storeBefore.videoElements = {}

\* C36: a frame load or a thumbnail load that was in flight when reset() was
\* called stores nothing when it completes: the caches that reset emptied are
\* still empty afterwards.
C36_ResetStaysEmpty ==
    LoadOutlivedReset =>
        /\ store.frameCache = storeBefore.frameCache
        /\ store.thumbnailCache = storeBefore.thumbnailCache
        /\ (storeBefore.frameCache = <<>> /\ storeBefore.thumbnailCache = <<>>) =>
              GetStats(store).framesCached + GetStats(store).thumbnailsCached = 0

-----------------------------------------------------------------------------
(* C37 *)

\* the latest of the ticker's construction and its previous update.  The
\* clock reading kept at setAsset is the last one before the construction, so
\* the time since the construction is at most now minus that reading
TickerSince ==
    IF Val(lifetime.created) >= Bf.frameTick THEN Val(lifetime.created) ELSE Bf.frameTick

\* C37: the elapsed time that update() applies is never longer than the
\* wall-clock time since the ticker was constructed or last updated; the first
\* render tick after setAsset and play advances by the time since the
\* construction only.
C37_ElapsedSinceCreation ==
    (IsDefined(advanced) /\ IsDefined(lifetime.created))
        => Val(advanced).elapsed <= now - TickerSince

-----------------------------------------------------------------------------
(* C38 *)

\* the calls that are to stay silent on a disposed controller
ControlCalls == {"play", "pause", "seekToFrame", "seekToTime", "setAsset"}

\* C38: once dispose() was called (and initialize was not called again) no
\* animation frame is scheduled, also when a listener called dispose() during
\* a render tick, and no later play, pause, seek or setAsset call delivers a
\* state-change or time-update notification.
C38_InertAfterDispose ==
    lifetime.disposed
        => /\ ~rafScheduled
           /\ (lastOp.op \in ControlCalls => events = <<>>)

-----------------------------------------------------------------------------
(* C39 *)

\* C39: in the editor store the playhead stays on the timeline,
\* 0 <= timeline.currentTime <= timeline.duration, after any sequence of
\* createProject, loadProject, addTrackItem, updateTrackItem, deleteTrackItem,
\* setCurrentTime, seek, setCurrentTimeOnly, play and pause; seek leaves
\* isPlaying false, setCurrentTime and setCurrentTimeOnly leave it as it was.
C39_PlayheadOnTimeline ==
    /\ 0 <= editor.timeline.currentTime
    /\ editor.timeline.currentTime <= editor.timeline.duration
    /\ lastOp.op = "seek" => ~editor.timeline.isPlaying
    /\ lastOp.op \in {"setCurrentTime", "setCurrentTimeOnly"} =>
          editor.timeline.isPlaying = timelineBefore.isPlaying

-----------------------------------------------------------------------------
(* C40 *)

\* C40: after addTrackItem, updateTrackItem and deleteTrackItem on a current
\* project, currentProject.duration is the latest end (startTime + duration)
\* of the items on all tracks, 0 without items, and timeline.duration is
\* equal to it.
C40_DurationIsLatestEnd ==
    (/\ lastOp.op \in {"addTrackItem", "updateTrackItem", "deleteTrackItem"}
     /\ IsDefined(editor.currentProject))
        => /\ Val(editor.currentProject).duration = LatestItemEnd(Val(editor.currentProject))
           /\ editor.timeline.duration = Val(editor.currentProject).duration

=============================================================================
